---- MODULE Spec2Model ----
(***************************************************************************)
(* Phone-Booth: session lifecycle, autonomous prompt selection, resilient  *)
(* client protocol and booth state machine.                                *)
(*                                                                         *)
(* Texts are sequences of one-character strings, so that substring tests,  *)
(* word extraction and the SequenceMatcher ratio are computed, not assumed.*)
(* Scores are exact rationals <<numerator, denominator>>.                  *)
(***************************************************************************)
EXTENDS Integers, Sequences, FiniteSets, TLC

\* ------------------------------------------------------------------------
\* Text helpers (str.lower, "in", re.findall(r'\b\w+\b'))
\* ------------------------------------------------------------------------
UpperCase ==
  <<"A","B","C","D","E","F","G","H","I","J","K","L","M",
    "N","O","P","Q","R","S","T","U","V","W","X","Y","Z">>

LowerCase ==
  <<"a","b","c","d","e","f","g","h","i","j","k","l","m",
    "n","o","p","q","r","s","t","u","v","w","x","y","z">>

WordChars ==
  {LowerCase[i] : i \in 1..26} \cup {UpperCase[i] : i \in 1..26}
    \cup {"0","1","2","3","4","5","6","7","8","9","_"}

lower_char(c) ==
  IF \E i \in 1..26 : UpperCase[i] = c
    THEN LowerCase[CHOOSE i \in 1..26 : UpperCase[i] = c]
    ELSE c

\* str.lower (SubSeq makes the result an explicit tuple)
lower(s) == SubSeq([i \in 1..Len(s) |-> lower_char(s[i])], 1, Len(s))

\* Python: needle in hay
contains(needle, hay) ==
  \E i \in 0..(Len(hay) - Len(needle)) :
    \A k \in 1..Len(needle) : hay[i + k] = needle[k]

RECURSIVE words_from(_, _, _)
words_from(s, i, cur) ==
  IF i > Len(s)
    THEN (IF cur = <<>> THEN <<>> ELSE <<cur>>)
    ELSE IF s[i] \in WordChars
      THEN words_from(s, i + 1, Append(cur, s[i]))
      ELSE (IF cur = <<>> THEN <<>> ELSE <<cur>>) \o words_from(s, i + 1, <<>>)

extract_words(text) == words_from(lower(text), 1, <<>>)

\* ------------------------------------------------------------------------
\* difflib.SequenceMatcher(None, a, b).ratio() = 2*M/T, kept as <<2*M, T>>
\* ------------------------------------------------------------------------
RECURSIVE run_length(_, _, _, _, _, _)
run_length(a, i, ahi, b, j, bhi) ==
  IF i > ahi \/ j > bhi THEN 0
  ELSE IF a[i] # b[j] THEN 0
  ELSE 1 + run_length(a, i + 1, ahi, b, j + 1, bhi)

\* longest block in a[alo..ahi], b[blo..bhi]; of the longest ones the one
\* starting earliest in a, and of those the one starting earliest in b
find_longest_match(a, alo, ahi, b, blo, bhi) ==
  LET starts == {p \in (alo..ahi) \X (blo..bhi) : a[p[1]] = b[p[2]]}
      len == [p \in starts |-> run_length(a, p[1], ahi, b, p[2], bhi)]
  IN IF starts = {} THEN <<alo, blo, 0>>
     ELSE LET longest == CHOOSE k \in {len[p] : p \in starts} :
                           \A q \in starts : len[q] <= k
              best == CHOOSE p \in starts :
                        /\ len[p] = longest
                        /\ \A q \in starts :
                             len[q] = longest =>
                               \/ p[1] < q[1]
                               \/ p[1] = q[1] /\ p[2] <= q[2]
          IN <<best[1], best[2], longest>>

RECURSIVE matching_chars(_, _, _, _, _, _)
matching_chars(a, alo, ahi, b, blo, bhi) ==
  IF alo > ahi \/ blo > bhi THEN 0
  ELSE LET m == find_longest_match(a, alo, ahi, b, blo, bhi)
       IN IF m[3] = 0 THEN 0
          ELSE m[3]
               + matching_chars(a, alo, m[1] - 1, b, blo, m[2] - 1)
               + matching_chars(a, m[1] + m[3], ahi, b, m[2] + m[3], bhi)

calculate_similarity(text1, text2) ==
  LET a == lower(text1)
      b == lower(text2)
  IN IF Len(a) + Len(b) = 0 THEN <<1, 1>>
     ELSE <<2 * matching_chars(a, 1, Len(a), b, 1, Len(b)), Len(a) + Len(b)>>

\* ------------------------------------------------------------------------
\* Exact rational arithmetic for the scores
\* ------------------------------------------------------------------------
RECURSIVE GCD(_, _)
GCD(m, n) == IF n = 0 THEN m ELSE GCD(n, m % n)

RNorm(x) == LET g == GCD(x[1], x[2]) IN IF g = 0 THEN x ELSE <<x[1] \div g, x[2] \div g>>
RAdd(x, y) == RNorm(<<x[1] * y[2] + y[1] * x[2], x[2] * y[2]>>)
RMul(x, y) == RNorm(<<x[1] * y[1], x[2] * y[2]>>)
RGt(x, y) == x[1] * y[2] > y[1] * x[2]
RZero == <<0, 1>>

\* sum of the first n entries of a sequence of rationals
RECURSIVE RSumTo(_, _)
RSumTo(xs, n) == IF n = 0 THEN RZero ELSE RAdd(RSumTo(xs, n - 1), xs[n])

RSum(xs) == RSumTo(xs, Len(xs))

\* ------------------------------------------------------------------------
\* The default registry (PromptRegistry._load_default_templates);
\* temperature is in tenths
\* ------------------------------------------------------------------------
T_conversation ==
  [ name |-> "conversation",
    keywords |-> <<
        <<"h", "e", "l", "l", "o">>,
        <<"h", "i">>,
        <<"h", "o", "w", " ", "a", "r", "e", " ", "y", "o", "u">>,
        <<"c", "h", "a", "t">>,
        <<"t", "a", "l", "k">>,
        <<"c", "o", "n", "v", "e", "r", "s", "a", "t", "i", "o", "n">>,
        <<"g", "e", "n", "e", "r", "a", "l">> >>,
    synonyms |-> <<
        <<"h", "e", "y">>,
        <<"g", "r", "e", "e", "t", "i", "n", "g", "s">>,
        <<"w", "h", "a", "t", "'", "s", " ", "u", "p">>,
        <<"h", "o", "w", "d", "y">>,
        <<"y", "o">>,
        <<"s", "u", "p">>,
        <<"g", "o", "o", "d", " ", "m", "o", "r", "n", "i", "n", "g">>,
        <<"g", "o", "o", "d", " ", "a", "f", "t", "e", "r", "n", "o", "o", "n">>,
        <<"g", "o", "o", "d", " ", "e", "v", "e", "n", "i", "n", "g">> >>,
    priority |-> 1,
    requires_webcam |-> FALSE,
    requires_keypad |-> FALSE,
    max_tokens |-> 100,
    temperature |-> 7 ]

T_questions ==
  [ name |-> "questions",
    keywords |-> <<
        <<"q", "u", "e", "s", "t", "i", "o", "n">>,
        <<"a", "s", "k">>,
        <<"c", "u", "r", "i", "o", "u", "s">>,
        <<"w", "o", "n", "d", "e", "r">>,
        <<"t", "h", "i", "n", "k">>,
        <<"i", "m", "a", "g", "i", "n", "e">> >>,
    synonyms |-> <<
        <<"q", "u", "e", "s", "t", "i", "o", "n", "s">>,
        <<"a", "s", "k", "i", "n", "g">>,
        <<"c", "u", "r", "i", "o", "s", "i", "t", "y">>,
        <<"w", "o", "n", "d", "e", "r", "i", "n", "g">>,
        <<"t", "h", "i", "n", "k", "i", "n", "g">>,
        <<"i", "m", "a", "g", "i", "n", "i", "n", "g">>,
        <<"w", "h", "a", "t", " ", "i", "f">>,
        <<"s", "u", "p", "p", "o", "s", "e">> >>,
    priority |-> 0,
    requires_webcam |-> FALSE,
    requires_keypad |-> FALSE,
    max_tokens |-> 100,
    temperature |-> 7 ]

T_riddles ==
  [ name |-> "riddles",
    keywords |-> <<
        <<"r", "i", "d", "d", "l", "e">>,
        <<"p", "u", "z", "z", "l", "e">>,
        <<"b", "r", "a", "i", "n", " ", "t", "e", "a", "s", "e", "r">>,
        <<"g", "u", "e", "s", "s">>,
        <<"m", "y", "s", "t", "e", "r", "y">>,
        <<"e", "n", "i", "g", "m", "a">> >>,
    synonyms |-> <<
        <<"r", "i", "d", "d", "l", "e", "s">>,
        <<"p", "u", "z", "z", "l", "e", "s">>,
        <<"b", "r", "a", "i", "n", " ", "t", "e", "a", "s", "e", "r", "s">>,
        <<"m", "y", "s", "t", "e", "r", "i", "e", "s">>,
        <<"e", "n", "i", "g", "m", "a", "s">>,
        <<"c", "o", "n", "u", "n", "d", "r", "u", "m">>,
        <<"c", "o", "n", "u", "n", "d", "r", "u", "m", "s">>,
        <<"w", "o", "r", "d", "p", "l", "a", "y">>,
        <<"l", "o", "g", "i", "c", " ", "p", "u", "z", "z", "l", "e">>,
        <<"m", "i", "n", "d", " ", "b", "e", "n", "d", "e", "r">> >>,
    priority |-> 2,
    requires_webcam |-> FALSE,
    requires_keypad |-> FALSE,
    max_tokens |-> 100,
    temperature |-> 7 ]

T_compliments ==
  [ name |-> "compliments",
    keywords |-> <<
        <<"c", "o", "m", "p", "l", "i", "m", "e", "n", "t">>,
        <<"n", "i", "c", "e">>,
        <<"k", "i", "n", "d">>,
        <<"s", "w", "e", "e", "t">>,
        <<"p", "o", "s", "i", "t", "i", "v", "e">>,
        <<"u", "p", "l", "i", "f", "t">>,
        <<"c", "h", "e", "e", "r">> >>,
    synonyms |-> <<
        <<"c", "o", "m", "p", "l", "i", "m", "e", "n", "t", "s">>,
        <<"n", "i", "c", "e", " ", "t", "h", "i", "n", "g", "s">>,
        <<"k", "i", "n", "d", " ", "w", "o", "r", "d", "s">>,
        <<"s", "w", "e", "e", "t", " ", "w", "o", "r", "d", "s">>,
        <<"p", "o", "s", "i", "t", "i", "v", "e", " ", "v", "i", "b", "e", "s">>,
        <<"u", "p", "l", "i", "f", "t", "i", "n", "g">>,
        <<"c", "h", "e", "e", "r", "f", "u", "l">>,
        <<"e", "n", "c", "o", "u", "r", "a", "g", "i", "n", "g">>,
        <<"s", "u", "p", "p", "o", "r", "t", "i", "v", "e">>,
        <<"f", "l", "a", "t", "t", "e", "r", "i", "n", "g">>,
        <<"p", "r", "a", "i", "s", "e">>,
        <<"a", "p", "p", "r", "e", "c", "i", "a", "t", "i", "o", "n">> >>,
    priority |-> 2,
    requires_webcam |-> FALSE,
    requires_keypad |-> FALSE,
    max_tokens |-> 100,
    temperature |-> 7 ]

T_advice ==
  [ name |-> "advice",
    keywords |-> <<
        <<"a", "d", "v", "i", "c", "e">>,
        <<"h", "e", "l", "p">>,
        <<"p", "r", "o", "b", "l", "e", "m">>,
        <<"i", "s", "s", "u", "e">>,
        <<"w", "h", "a", "t", " ", "s", "h", "o", "u", "l", "d", " ", "I", " ", "d", "o">>,
        <<"s", "u", "g", "g", "e", "s", "t", "i", "o", "n">> >>,
    synonyms |-> <<
        <<"a", "d", "v", "i", "s", "e">>,
        <<"g", "u", "i", "d", "a", "n", "c", "e">>,
        <<"c", "o", "u", "n", "s", "e", "l">>,
        <<"r", "e", "c", "o", "m", "m", "e", "n", "d", "a", "t", "i", "o", "n">>,
        <<"t", "i", "p">>,
        <<"h", "i", "n", "t">>,
        <<"s", "u", "g", "g", "e", "s", "t", "i", "o", "n", "s">>,
        <<"t", "r", "o", "u", "b", "l", "e">>,
        <<"d", "i", "f", "f", "i", "c", "u", "l", "t", "y">>,
        <<"c", "h", "a", "l", "l", "e", "n", "g", "e">>,
        <<"d", "i", "l", "e", "m", "m", "a">>,
        <<"q", "u", "e", "s", "t", "i", "o", "n">>,
        <<"w", "o", "n", "d", "e", "r", "i", "n", "g">>,
        <<"c", "o", "n", "f", "u", "s", "e", "d">>,
        <<"s", "t", "u", "c", "k">> >>,
    priority |-> 2,
    requires_webcam |-> FALSE,
    requires_keypad |-> FALSE,
    max_tokens |-> 100,
    temperature |-> 7 ]

T_stories ==
  [ name |-> "stories",
    keywords |-> <<
        <<"s", "t", "o", "r", "y">>,
        <<"t", "a", "l", "e">>,
        <<"n", "a", "r", "r", "a", "t", "i", "v", "e">>,
        <<"t", "e", "l", "l", " ", "m", "e", " ", "a", " ", "s", "t", "o", "r", "y">>,
        <<"o", "n", "c", "e", " ", "u", "p", "o", "n", " ", "a", " ", "t", "i", "m", "e">> >>,
    synonyms |-> <<
        <<"s", "t", "o", "r", "i", "e", "s">>,
        <<"t", "a", "l", "e", "s">>,
        <<"n", "a", "r", "r", "a", "t", "i", "v", "e", "s">>,
        <<"f", "a", "b", "l", "e">>,
        <<"f", "a", "b", "l", "e", "s">>,
        <<"l", "e", "g", "e", "n", "d">>,
        <<"l", "e", "g", "e", "n", "d", "s">>,
        <<"m", "y", "t", "h">>,
        <<"m", "y", "t", "h", "s">>,
        <<"a", "d", "v", "e", "n", "t", "u", "r", "e">>,
        <<"a", "d", "v", "e", "n", "t", "u", "r", "e", "s">>,
        <<"j", "o", "u", "r", "n", "e", "y">>,
        <<"j", "o", "u", "r", "n", "e", "y", "s">>,
        <<"e", "p", "i", "c">>,
        <<"e", "p", "i", "c", "s">> >>,
    priority |-> 2,
    requires_webcam |-> FALSE,
    requires_keypad |-> FALSE,
    max_tokens |-> 100,
    temperature |-> 7 ]

T_fashion ==
  [ name |-> "fashion",
    keywords |-> <<
        <<"f", "a", "s", "h", "i", "o", "n">>,
        <<"o", "u", "t", "f", "i", "t">>,
        <<"s", "t", "y", "l", "e">>,
        <<"c", "l", "o", "t", "h", "e", "s">>,
        <<"d", "r", "e", "s", "s">>,
        <<"l", "o", "o", "k">>,
        <<"a", "p", "p", "e", "a", "r", "a", "n", "c", "e">> >>,
    synonyms |-> <<
        <<"f", "a", "s", "h", "i", "o", "n", "a", "b", "l", "e">>,
        <<"s", "t", "y", "l", "i", "s", "h">>,
        <<"o", "u", "t", "f", "i", "t", "s">>,
        <<"c", "l", "o", "t", "h", "i", "n", "g">>,
        <<"a", "t", "t", "i", "r", "e">>,
        <<"e", "n", "s", "e", "m", "b", "l", "e">>,
        <<"w", "a", "r", "d", "r", "o", "b", "e">>,
        <<"d", "r", "e", "s", "s", "e", "d">>,
        <<"l", "o", "o", "k", "i", "n", "g">>,
        <<"a", "p", "p", "e", "a", "r", "a", "n", "c", "e", "s">>,
        <<"s", "t", "y", "l", "e", " ", "a", "d", "v", "i", "c", "e">>,
        <<"f", "a", "s", "h", "i", "o", "n", " ", "a", "d", "v", "i", "c", "e">>,
        <<"h", "o", "w", " ", "d", "o", " ", "I", " ", "l", "o", "o", "k">>,
        <<"w", "h", "a", "t", " ", "d", "o", " ", "y", "o", "u", " ", "t", "h", "i", "n", "k", " ", "o", "f", " ", "m", "y", " ", "o", "u", "t", "f", "i", "t">> >>,
    priority |-> 3,
    requires_webcam |-> TRUE,
    requires_keypad |-> FALSE,
    max_tokens |-> 100,
    temperature |-> 7 ]

templates == << T_conversation, T_questions, T_riddles, T_compliments, T_advice, T_stories, T_fashion >>

\* max_tokens and temperature defaults of llm config (tenths for temperature)
llm_max_tokens == 180
llm_temperature == 8

\* ------------------------------------------------------------------------
\* PromptRegistry._score_template_match
\* ------------------------------------------------------------------------
\* the keywords, and the synonyms, that occur in the lowered input
exact_keywords(template, user_input) ==
  {k \in 1..Len(template.keywords) :
     contains(lower(template.keywords[k]), lower(user_input))}

exact_synonyms(template, user_input) ==
  {k \in 1..Len(template.synonyms) :
     contains(lower(template.synonyms[k]), lower(user_input))}

\* the score, an exact keyword match weighing keyword_weight and the
\* phrase bonus given to inputs of more than phrase_words words
score_template_match_with(template, user_input, keyword_weight, phrase_words) ==
  LET user_words == extract_words(user_input)
      kw == template.keywords
      sy == template.synonyms
      nw == Len(user_words)
      \* exact keyword matches, 2.0 each
      exact_kw == Cardinality(exact_keywords(template, user_input))
      \* synonym matches, 1.5 each
      exact_sy == Cardinality(exact_synonyms(template, user_input))
      \* word-level fuzzy matching: similarity * 0.5 / similarity * 0.3
      \* (the pairs over the 0.8 threshold are filtered first, then summed)
      fuzzy(terms, weight) ==
        LET similarity == [p \in 1..(nw * Len(terms)) |->
                             calculate_similarity(user_words[((p - 1) \div Len(terms)) + 1],
                                                  terms[((p - 1) % Len(terms)) + 1])]
            over(s) == RGt(s, <<8, 10>>)
            hits == SelectSeq(similarity, over)
        IN RSum([h \in 1..Len(hits) |-> RMul(hits[h], weight)])
      \* bigram bonus, only for more than two words
      phrase(i) == user_words[i] \o <<" ">> \o user_words[i + 1]
      bigram(terms) ==
        IF nw > phrase_words
          THEN Cardinality({p \in (1..(nw - 1)) \X (1..Len(terms)) :
                              contains(lower(terms[p[2]]), phrase(p[1]))})
          ELSE 0
  IN RSum(<< RMul(<<exact_kw, 1>>, keyword_weight),
             <<3 * exact_sy, 2>>,
             fuzzy(kw, <<5, 10>>),
             fuzzy(sy, <<3, 10>>),
             <<template.priority, 10>>,
             <<5 * bigram(kw), 10>>,
             <<3 * bigram(sy), 10>> >>)

score_template_match_weighing(template, user_input, keyword_weight) ==
  score_template_match_with(template, user_input, keyword_weight, 2)

\* a score that leaves the exact keyword matches out
score_template_match_no_keywords(template, user_input) ==
  score_template_match_weighing(template, user_input, <<0, 1>>)

\* a score that gives the phrase bonus to inputs of any length
score_template_match_short_phrases(template, user_input) ==
  score_template_match_with(template, user_input, <<2, 1>>, 0)

score_template_match(template, user_input) ==
  score_template_match_weighing(template, user_input, <<2, 1>>)

\* dict.get(key, False) on available_features
features_get(available_features, key) ==
  IF key \in DOMAIN available_features THEN available_features[key] ELSE FALSE

\* the value None of available_features
None_features == [none |-> TRUE]

\* ------------------------------------------------------------------------
\* PromptRegistry.select_template_autonomous
\* ------------------------------------------------------------------------
\* a scores dict with an entry for every template, its requirements ignored
template_scores_unfiltered(user_input, features_arg) ==
  [i \in 1..Len(templates) |->
     [name |-> templates[i].name, priority |-> templates[i].priority,
      score |-> RNorm(score_template_match(templates[i], user_input))]]

\* the scores dict: one entry per template whose requirements are met, in
\* registration order
template_scores(user_input, features_arg) ==
  LET available_features ==
        IF features_arg = None_features
          THEN [webcam |-> FALSE, keypad |-> FALSE]
          ELSE features_arg
      eligible(t) ==
        /\ ~(t.requires_webcam /\ ~features_get(available_features, "webcam"))
        /\ ~(t.requires_keypad /\ ~features_get(available_features, "keypad"))
      scored == SelectSeq(templates, eligible)
  IN [i \in 1..Len(scored) |->
        [name |-> scored[i].name, priority |-> scored[i].priority,
         score |-> RNorm(score_template_match(scored[i], user_input))]]

\* a maximum that keeps the last of the entries of maximal score
best_of_last(scores) ==
  IF scores # <<>>
    THEN LET best == CHOOSE i \in 1..Len(scores) :
                       /\ \A j \in 1..Len(scores) : ~RGt(scores[j].score, scores[i].score)
                       /\ \A j \in (i + 1)..Len(scores) : RGt(scores[i].score, scores[j].score)
         IN IF RGt(scores[best].score, RZero) THEN scores[best].name ELSE "questions"
    ELSE "questions"

\* max(scores.items(), key=score): the first entry of maximal score; the
\* name of the returned template
best_of(scores) ==
  IF scores # <<>>
    THEN LET best == CHOOSE i \in 1..Len(scores) :
                       /\ \A j \in 1..Len(scores) : ~RGt(scores[j].score, scores[i].score)
                       /\ \A j \in 1..(i - 1) : RGt(scores[i].score, scores[j].score)
         IN IF RGt(scores[best].score, RZero) THEN scores[best].name ELSE "questions"
    ELSE "questions"

select_template_autonomous(user_input, features_arg) ==
  best_of(template_scores(user_input, features_arg))

\* ------------------------------------------------------------------------
\* Bounds of the model.  ttl_seconds and history_max_turns are the
\* configured sessions.ttl_seconds / sessions.history_max_turns
\* (backend/app/config.py), taken small so that expiry and truncation happen
\* within MaxTime ticks and MaxRequests requests.
\* ------------------------------------------------------------------------
MaxTime == 1
MaxRequests == 3
ttl_seconds == 0
history_max_turns == 2

\* the well-formed ids, and the one id the requests of Spec carry
SessionIds == {"u1", "u2"}
OneSession == {"u1"}
MalformedIds == {"not-a-uuid"}
Workers == {1, 2}
StartPersonalities == {"trickster"}
\* a personality id that no persona carries
UnknownPersonalities == {"nobody"}
\* "" is an absent (None) override
OverridePersonalities == {""} \cup UnknownPersonalities
Engines == {"echo", "llama_cpp", "ollama"}

Text_riddle == <<"G", "i", "v", "e", " ", "m", "e", " ", "a", " ", "r", "i", "d", "d", "l", "e">>
\* the texts of the /generate requests
UserTexts == {Text_riddle}

echo_prefix == <<"[", "e", "c", "h", "o", "]", " ">>
\* some text produced by a language model
model_reply == <<"o", "k">>
fallback_text ==
  <<"I", "'", "m", " ", "h", "a", "v", "i", "n", "g", " ", "t", "r", "o", "u", "b", "l", "e", " ",
    "t", "h", "i", "n", "k", "i", "n", "g", " ", "o", "f", " ", "a", " ", "r", "e", "s", "p", "o",
    "n", "s", "e", " ", "r", "i", "g", "h", "t", " ", "n", "o", "w", ".", " ", "C", "o", "u", "l",
    "d", " ", "y", "o", "u", " ", "t", "r", "y", " ", "a", "g", "a", "i", "n", "?">>

VARIABLES
  now,            \* time.time(), in ticks
  store,          \* InMemorySessionStore: the set of Session records
  next_obj,       \* identity of the next Session object constructed
  next_rid,       \* serial number of the next HTTP request
  req,            \* per worker thread: the request it is handling
  resp,           \* the response sent last
  engine,         \* the configured engine variant (config llm.engine)
  released,       \* history: the ids whose session was released and not created again
  state_manager,  \* the booth's BoothStateManager
  thr,            \* per handler thread of the web UI: the handler it runs
  ui,             \* requests made to the web UI and the reply sent last
  bk,             \* the backend as the booth's client meets it
  sel             \* one call of select_template_autonomous

backend_vars == <<now, store, next_obj, next_rid, req, resp, engine, released>>
booth_vars == <<state_manager, thr, ui, bk>>
vars == <<now, store, next_obj, next_rid, req, resp, engine, released, state_manager, thr, ui, bk, sel>>

\* ------------------------------------------------------------------------
\* str.split() count and str.strip()
\* ------------------------------------------------------------------------
RECURSIVE split_count(_, _, _)
split_count(s, i, inword) ==
  IF i > Len(s) THEN 0
  ELSE IF s[i] = " " THEN split_count(s, i + 1, FALSE)
  ELSE (IF inword THEN 0 ELSE 1) + split_count(s, i + 1, TRUE)

RECURSIVE strip(_)
strip(s) ==
  IF s = <<>> THEN s
  ELSE IF Head(s) = " " THEN strip(Tail(s))
  ELSE IF s[Len(s)] = " " THEN strip(SubSeq(s, 1, Len(s) - 1))
  ELSE s

\* ------------------------------------------------------------------------
\* Engines: the result is [raised, text, usage]
\* ------------------------------------------------------------------------
Usage(p, c, t) == [prompt_tokens |-> p, completion_tokens |-> c, total_tokens |-> t]

EchoEngine_generate(messages) ==
  LET is_user(m) == m.role = "user"
      users == SelectSeq(messages, is_user)
      last_user == IF users = <<>> THEN <<>> ELSE users[Len(users)].content
      text == strip(echo_prefix \o last_user)
      n == split_count(text, 1, FALSE)
  IN [raised |-> FALSE, text |-> text, usage |-> Usage(0, n, n)]

\* model_fails: the llama.cpp call raises
LlamaCppEngine_generate(messages, model_fails) ==
  IF model_fails
    THEN LET n == split_count(fallback_text, 1, FALSE)
         IN [raised |-> FALSE, text |-> fallback_text, usage |-> Usage(0, n, n)]
    ELSE [raised |-> FALSE, text |-> model_reply, usage |-> Usage(1, 1, 2)]

\* model_fails: the Ollama HTTP call fails (status error, connection error)
OllamaProxyEngine_generate(messages, model_fails) ==
  IF model_fails
    THEN [raised |-> TRUE, text |-> <<>>, usage |-> Usage(0, 0, 0)]
    ELSE [raised |-> FALSE, text |-> model_reply, usage |-> Usage(1, 1, 2)]

engine_generate(kind, messages, model_fails) ==
  CASE kind = "echo" -> EchoEngine_generate(messages)
    [] kind = "llama_cpp" -> LlamaCppEngine_generate(messages, model_fails)
    [] kind = "ollama" -> OllamaProxyEngine_generate(messages, model_fails)

\* ------------------------------------------------------------------------
\* SessionStore (sessions/store.py) and truncate_history (sessions/models.py)
\* ------------------------------------------------------------------------
Session(id, booth_id, personality, mode, t, obj) ==
  [ session_id |-> id, booth_id |-> booth_id, personality |-> personality,
    mode |-> mode, turns |-> <<>>, created_at |-> t, updated_at |-> t,
    ttl_seconds |-> ttl_seconds,
    obj |-> obj,       \* object identity
    log |-> <<>>,      \* history: every turn ever appended to this object
    starts |-> <<>> ]  \* history: the session/start responses naming this object

\* rid: the request that appended the turn; via: the Session object it held
Turn(role, content, ts, rid, via) ==
  [role |-> role, content |-> content, ts |-> ts, rid |-> rid, via |-> via]

expired(s, t) == t - s.created_at > s.ttl_seconds

\* the live records with this id: empty (absent) or one record
store_get(st, id, t) == {s \in st : s.session_id = id /\ ~expired(s, t)}

create_if_absent(st, session, t) ==
  LET found == store_get(st, session.session_id, t)
  IN IF found # {}
       THEN [store |-> st, session |-> CHOOSE s \in found : TRUE, created |-> FALSE]
       ELSE [store |-> {s \in st : s.session_id # session.session_id} \cup {session},
             session |-> session, created |-> TRUE]

append_turn(st, id, turn, t) ==
  {IF s.session_id = id /\ ~expired(s, t)
     THEN [s EXCEPT !.turns = Append(@, turn), !.updated_at = t, !.log = Append(@, turn)]
     ELSE s : s \in st}

release(st, id) == {s \in st : s.session_id # id}

last_turns(turns, n) ==
  IF Len(turns) > n THEN SubSeq(turns, Len(turns) - n + 1, Len(turns)) ELSE turns

\* truncates the Session object the handler holds (it may no longer be stored)
truncate_history(st, obj, n) ==
  {IF s.obj = obj THEN [s EXCEPT !.turns = last_turns(@, n)] ELSE s : s \in st}

sweep(st, t) == {s \in st : ~expired(s, t)}

\* ------------------------------------------------------------------------
\* Requests and responses of the backend (backend/app/api.py)
\* ------------------------------------------------------------------------
NoFeatures == [webcam |-> FALSE, keypad |-> FALSE]

\* select_template_autonomous on the texts the requests carry, evaluated once
selected_for == [t \in UserTexts |-> select_template_autonomous(t, NoFeatures)]

template_named(n) ==
  templates[CHOOSE i \in 1..Len(templates) : templates[i].name = n]

\* PromptTemplate, lines 26-27: the values of a template that sets neither
default_max_tokens == 100
default_temperature == 7

\* lines 120-125: the system prompt of a template, with the question that is
\* injected for the template questions; a prompt is known by its template
system_prompt_of(template) ==
  [template |-> template.name, question |-> template.name = "questions"]

IdleRequest ==
  [ pc |-> "idle", kind |-> "none", rid |-> 0, session_id |-> "", user_text |-> <<>>,
    booth_id |-> "", personality |-> "", mode |-> "", obj |-> 0, ts |-> 0,
    messages |-> <<>>, selected |-> "", question_injected |-> FALSE,
    system_prompt |-> [template |-> "", question |-> FALSE],
    max_tokens |-> 0, temperature |-> 0, text |-> <<>>, usage |-> Usage(0, 0, 0),
    \* history of the request
    seen_expired |-> FALSE, seen_none |-> FALSE, engine_called |-> FALSE, engine_failed |-> FALSE,
    appended |-> 0, after_release |-> FALSE ]

\* a response; status is the HTTP status, 0 before the first response
Response(r, status) ==
  [ rid |-> r.rid, kind |-> r.kind, session_id |-> r.session_id, status |-> status,
    created |-> FALSE, expires_in_seconds |-> 0, obj |-> r.obj,
    text |-> r.text, usage |-> r.usage, personality |-> r.personality,
    selected_mode |-> r.selected, user_text |-> r.user_text,
    seen_expired |-> r.seen_expired, seen_none |-> r.seen_none, engine_called |-> r.engine_called,
    engine_failed |-> r.engine_failed, appended |-> r.appended,
    after_release |-> r.after_release ]

NoResponse == Response(IdleRequest, 0)

InitBackend ==
  /\ now = 0
  /\ store = {}
  /\ next_obj = 1
  /\ next_rid = 1
  /\ req = [w \in Workers |-> IdleRequest]
  /\ resp = NoResponse
  /\ engine \in Engines
  /\ released = {}

\* a request is taken by the first idle worker thread
Accept(w) ==
  /\ req[w].pc = "idle"
  /\ \A v \in Workers : v < w => req[v].pc # "idle"
  /\ next_rid <= MaxRequests

\* history of a lookup: the store holds a record of this id older than its ttl,
\* or no record of this id at all
holds_expired(id) ==
  \E s \in store : s.session_id = id /\ now - s.created_at > s.ttl_seconds

holds_none(id) == \A s \in store : s.session_id # id

\* POST /v1/session/start, lines 63-78: validation and the new Session
session_start_begin_accepting(w, id, booth_id, personality, mode, accepted) ==
  /\ Accept(w)
  /\ LET r == [IdleRequest EXCEPT !.kind = "start", !.rid = next_rid, !.session_id = id,
                                  !.booth_id = booth_id, !.personality = personality,
                                  !.mode = mode, !.ts = now]
     IN IF id \notin accepted
          THEN /\ resp' = Response(r, 400)
               /\ UNCHANGED <<req, next_obj, next_rid>>
          ELSE /\ req' = [req EXCEPT ![w] = [r EXCEPT !.pc = "start_store", !.obj = next_obj]]
               /\ next_obj' = next_obj + 1
               /\ next_rid' = next_rid + 1
               /\ UNCHANGED resp
  /\ UNCHANGED <<now, store, engine>>
  /\ UNCHANGED <<released, booth_vars, sel>>

\* a handler that takes the id as it comes
session_start_begin_unvalidated(w, id, booth_id, personality, mode) ==
  session_start_begin_accepting(w, id, booth_id, personality, mode,
                                SessionIds \cup MalformedIds)

\* UUID(request.session_id) accepts the well-formed ids
session_start_begin(w, id, booth_id, personality, mode) ==
  session_start_begin_accepting(w, id, booth_id, personality, mode, SessionIds)

\* POST /v1/session/start, lines 69-78: the Session the handler has built
new_session(w) ==
  Session(req[w].session_id, req[w].booth_id, req[w].personality, req[w].mode,
          req[w].ts, req[w].obj)

\* POST /v1/session/start, lines 79-80: the response made of the store's
\* answer res, reporting created
session_start_reply(w, res, created) ==
  /\ req[w].pc = "start_store"
  /\ LET r == [req[w] EXCEPT !.seen_expired = holds_expired(req[w].session_id),
                             !.seen_none = holds_none(req[w].session_id)]
         answer == [created |-> created,
                    expires_in_seconds |-> res.session.ttl_seconds,
                    obj |-> res.session.obj,
                    \* history: another start for this id was in flight
                    concurrent |-> \E v \in Workers \ {w} :
                                      /\ req[v].pc = "start_store"
                                      /\ req[v].session_id = r.session_id]
     IN /\ store' = {IF s.obj = res.session.obj
                       THEN [s EXCEPT !.starts = Append(@, answer)] ELSE s : s \in res.store}
        /\ resp' = [Response(r, 200) EXCEPT !.created = answer.created,
                                             !.expires_in_seconds = answer.expires_in_seconds,
                                             !.obj = answer.obj]
  /\ released' = IF res.created THEN released \ {req[w].session_id} ELSE released
  /\ req' = [req EXCEPT ![w] = IdleRequest]
  /\ UNCHANGED <<now, next_obj, next_rid, engine>>
  /\ UNCHANGED <<booth_vars, sel>>

\* a handler that reports created=true whatever the store answered
session_start_always_created(w) ==
  session_start_reply(w, create_if_absent(store, new_session(w), now), TRUE)

\* a handler that adds the new Session without asking whether the id is taken
insert_session(st, session, t) ==
  [store |-> st \cup {session}, session |-> session, created |-> TRUE]

session_start_insert(w) ==
  session_start_reply(w, insert_session(store, new_session(w), now), TRUE)

\* a handler that puts the new Session in the place of the stored one
session_start_overwrite(w) ==
  session_start_reply(w,
    [store |-> (store \ {s \in store : s.session_id = req[w].session_id})
                 \cup {new_session(w)},
     session |-> new_session(w), created |-> TRUE],
    FALSE)

session_start(w) ==
  LET res == create_if_absent(store, new_session(w), now)
  IN session_start_reply(w, res, res.created)

\* POST /v1/generate, lines 89-144: lookup, overrides, messages, selection;
\* found is what store.get returns, selected_name the template selected
generate_lookup_selecting(w, id, user_text, personality, mode, found, selected_name) ==
  /\ Accept(w)
  /\ LET r == [IdleRequest EXCEPT !.kind = "generate", !.rid = next_rid, !.session_id = id,
                                  !.user_text = user_text, !.personality = personality,
                                  !.mode = mode,
                                  !.seen_expired = id \in SessionIds /\ holds_expired(id),
                                  !.seen_none = id \in SessionIds /\ holds_none(id),
                                  !.after_release = id \in released]
     IN IF id \notin SessionIds
          THEN /\ resp' = Response(r, 400)
               /\ UNCHANGED <<req, next_rid>>
          ELSE IF found = {}
            THEN /\ resp' = Response(r, 404)
                 /\ next_rid' = next_rid + 1
                 /\ UNCHANGED req
            ELSE LET session == CHOOSE s \in found : TRUE
                     selected_template == template_named(selected_name)
                 IN /\ req' = [req EXCEPT ![w] =
                          [r EXCEPT
                             !.pc = "engine",
                             !.obj = session.obj,
                             !.personality = IF personality # "" THEN personality
                                             ELSE session.personality,
                             !.mode = IF mode # "" THEN mode ELSE session.mode,
                             !.messages =
                                [i \in 1..Len(session.turns) |->
                                   [role |-> session.turns[i].role,
                                    content |-> session.turns[i].content]]
                                \o << [role |-> "user", content |-> user_text] >>,
                             !.selected = selected_template.name,
                             !.system_prompt = system_prompt_of(selected_template),
                             !.question_injected = (selected_template.name = "questions"),
                             !.max_tokens = IF selected_template.max_tokens # 0
                                            THEN selected_template.max_tokens
                                            ELSE llm_max_tokens,
                             !.temperature = IF selected_template.temperature # 0
                                             THEN selected_template.temperature
                                             ELSE llm_temperature]]
                    /\ next_rid' = next_rid + 1
                    /\ UNCHANGED resp
  /\ UNCHANGED <<now, store, next_obj, engine>>
  /\ UNCHANGED <<released, booth_vars, sel>>

\* lines 109-118: the template is selected for user_text and the feature
\* flags of the handler
generate_lookup_in(w, id, user_text, personality, mode, found) ==
  generate_lookup_selecting(w, id, user_text, personality, mode, found,
                            selected_for[user_text])

\* a lookup that ignores the age of the record
generate_lookup_any_age(w, id, user_text, personality, mode) ==
  generate_lookup_in(w, id, user_text, personality, mode,
                     {s \in store : s.session_id = id})

\* a handler that sends the new user message without the stored turns
generate_lookup_no_history(w, id, user_text, personality, mode) ==
  generate_lookup_in(w, id, user_text, personality, mode,
                     {[s EXCEPT !.turns = <<>>] : s \in store_get(store, id, now)})

\* a handler that lets a personality override choose the template
generate_lookup_by_personality(w, id, user_text, personality, mode) ==
  generate_lookup_selecting(w, id, user_text, personality, mode, store_get(store, id, now),
                            IF personality = "" THEN selected_for[user_text]
                            ELSE "conversation")

generate_lookup(w, id, user_text, personality, mode) ==
  generate_lookup_in(w, id, user_text, personality, mode, store_get(store, id, now))

\* POST /v1/generate, lines 146-152: the engine call; left is the store a
\* call that raises leaves behind
generate_engine_leaving(w, model_fails, left) ==
  /\ req[w].pc = "engine"
  /\ model_fails => engine # "echo"
  /\ LET r == [req[w] EXCEPT !.engine_called = TRUE, !.engine_failed = model_fails]
         res == engine_generate(engine, r.messages, model_fails)
     IN IF res.raised
          THEN \* the RuntimeError leaves the handler: 500
               /\ resp' = Response(r, 500)
               /\ req' = [req EXCEPT ![w] = IdleRequest]
               /\ store' = left
          ELSE /\ req' = [req EXCEPT ![w] =
                           [r EXCEPT !.pc = "append_user", !.text = res.text,
                                     !.usage = res.usage]]
               /\ UNCHANGED <<resp, store>>
  /\ UNCHANGED <<now, next_obj, next_rid, engine>>
  /\ UNCHANGED <<released, booth_vars, sel>>

\* a handler that has recorded the user turn before the engine is called
generate_engine_records_first(w, model_fails) ==
  generate_engine_leaving(w, model_fails,
    append_turn(store, req[w].session_id,
                Turn("user", req[w].user_text, now, req[w].rid, req[w].obj), now))

generate_engine(w, model_fails) == generate_engine_leaving(w, model_fails, store)

\* one store.append_turn call of the handler (lines 155-157); on an absent
\* or expired session append_turn either does nothing or raises NotFound
generate_append(w, pc, role, next_pc, raises) ==
  /\ req[w].pc = pc
  /\ LET r == req[w]
         ts == IF pc = "append_user" THEN now ELSE r.ts
         content == IF role = "user" THEN r.user_text ELSE r.text
         present == store_get(store, r.session_id, now) # {}
     IN /\ raises => ~present
        /\ IF ~raises
             THEN /\ store' = append_turn(store, r.session_id,
                                          Turn(role, content, ts, r.rid, r.obj), now)
                  /\ req' = [req EXCEPT ![w] =
                               [r EXCEPT !.pc = next_pc, !.ts = ts,
                                         !.appended = IF present THEN @ + 1 ELSE @]]
                  /\ UNCHANGED resp
             ELSE \* NotFound leaves the handler: 404
                  /\ resp' = Response(r, 404)
                  /\ req' = [req EXCEPT ![w] = IdleRequest]
                  /\ UNCHANGED store
  /\ UNCHANGED <<now, next_obj, next_rid, engine>>
  /\ UNCHANGED <<released, booth_vars, sel>>

generate_append_user(w, raises) ==
  generate_append(w, "append_user", "user", "append_assistant", raises)

\* a handler that records the user text a second time instead of the reply
generate_append_user_twice(w, raises) ==
  generate_append(w, "append_assistant", "user", "truncate", raises)

generate_append_assistant(w, raises) ==
  generate_append(w, "append_assistant", "assistant", "truncate", raises)

\* POST /v1/generate, lines 159-168: truncate_history and the response,
\* which reports selected_mode
generate_reply(w, limit, selected_mode) ==
  /\ req[w].pc = "truncate"
  /\ store' = truncate_history(store, req[w].obj, limit)
  /\ resp' = [Response(req[w], 200) EXCEPT !.selected_mode = selected_mode]
  /\ req' = [req EXCEPT ![w] = IdleRequest]
  /\ UNCHANGED <<now, next_obj, next_rid, engine>>
  /\ UNCHANGED <<released, booth_vars, sel>>

generate_finish(w, limit) == generate_reply(w, limit, req[w].selected)

\* a handler that trims to one turn more than configured
generate_off_by_one(w) == generate_finish(w, history_max_turns + 1)

\* a handler that reports the mode of the session as the selected mode
generate_reports_mode(w) == generate_reply(w, history_max_turns, req[w].mode)

generate(w) == generate_finish(w, history_max_turns)

\* POST /v1/session/release: the handler leaves the store as removed and
\* answers status
session_release_with(w, id, removed, status) ==
  /\ Accept(w)
  /\ LET r == [IdleRequest EXCEPT !.kind = "release", !.rid = next_rid, !.session_id = id,
                                  !.seen_expired = id \in SessionIds /\ holds_expired(id),
                                  !.seen_none = id \in SessionIds /\ holds_none(id),
                                  !.after_release = id \in released]
     IN IF id \notin SessionIds
          THEN /\ resp' = Response(r, 400)
               /\ UNCHANGED <<store, next_rid, released>>
          ELSE /\ store' = removed
               /\ resp' = Response(r, status)
               /\ next_rid' = next_rid + 1
               /\ released' = IF holds_none(id) THEN released ELSE released \cup {id}
  /\ UNCHANGED <<now, next_obj, req, engine>>
  /\ UNCHANGED <<booth_vars, sel>>

\* a handler that answers ok without asking the store to remove the session
session_release_keeps(w, id) == session_release_with(w, id, store, 200)

\* a handler that answers 404 for a session the store does not hold
session_release_strict(w, id) ==
  session_release_with(w, id, release(store, id),
                       IF store_get(store, id, now) = {} THEN 404 ELSE 200)

\* a handler that empties the store
session_release_all(w, id) == session_release_with(w, id, {}, 200)

session_release(w, id) == session_release_with(w, id, release(store, id), 200)

\* time passes
Tick ==
  /\ now < MaxTime
  /\ now' = now + 1
  /\ UNCHANGED <<store, next_obj, next_rid, req, resp, engine>>
  /\ UNCHANGED <<released, booth_vars, sel>>

\* the optional background sweep of expired records
Sweep ==
  /\ sweep(store, now) # store
  /\ store' = sweep(store, now)
  /\ UNCHANGED <<now, next_obj, next_rid, req, resp, engine>>
  /\ UNCHANGED <<released, booth_vars, sel>>

\* ------------------------------------------------------------------------
\* The booth: BackendClient (frontend/booth/net.py), BoothStateManager
\* (frontend/booth/state.py) and the handlers of the web UI
\* (frontend/web_ui/app.py)
\* ------------------------------------------------------------------------
\* session.max_retries and session.retry_delay_s of the booth's configuration
max_retries == 3
retry_delay_s == 1

\* the web UI receives at most MaxCalls requests, and the backend loses its
\* sessions (ttl expiry, restart) at most MaxForgets times
MaxCalls == 2
MaxForgets == 2

Handlers == {1, 2}

\* what one HTTP request of the client meets: a JSON answer, a status, no
\* connection, an answer lost after the backend has served the request, or a
\* body that is not JSON
Answers == {"ok", "404", "4xx", "5xx", "neterr", "timeout", "badjson"}
ServerErrors == {"5xx", "neterr", "timeout"}

\* what the client's retry policy tells apart in an answer
kind_of(answer) ==
  CASE answer = "ok" -> "ok"
    [] answer = "404" -> "not_found"
    [] answer \in ServerErrors -> "server_error"
    [] answer = "4xx" -> "client_error"
    [] OTHER -> "other_error"

\* BackendClient._make_request: the value returned or the exception raised
make_request(answer) ==
  CASE answer = "ok" -> "response"
    [] answer = "404" -> "SessionNotFoundError"
    [] OTHER -> "BackendError"

\* the backend's side of one request for session id: /v1/generate answers 200
\* only for a session it holds and 404 only for one it does not hold; a
\* release may meet a 404 of the HTTP layer, a start never meets one
served(kind, id, answer, alive) ==
  /\ answer \in {"ok", "timeout"} /\ kind = "generate" => id \in alive
  /\ answer = "404" => ((kind = "generate" /\ id \notin alive) \/ kind = "release")

alive_after(kind, id, answer, alive) ==
  IF answer \in {"ok", "timeout"}
    THEN CASE kind = "start" -> alive \cup {id}
           [] kind = "release" -> alive \ {id}
           [] OTHER -> alive
    ELSE alive

\* the user turns the backend holds for its live sessions: how many of them
\* each speak call has left in each session.  A generate that the backend
\* has answered, seen by the client or not, has recorded its turns (api.py
\* 154-157); a session that is released or forgotten takes its turns with it
turns_after(kind, id, call, answer, alive, turns) ==
  IF answer \in {"ok", "timeout"}
    THEN CASE kind = "generate" /\ id \in alive ->
                IF \E e \in turns : e.session_id = id /\ e.call = call
                  THEN {IF e.session_id = id /\ e.call = call
                          THEN [e EXCEPT !.n = @ + 1] ELSE e : e \in turns}
                  ELSE turns \cup {[session_id |-> id, call |-> call, n |-> 1]}
           [] kind = "release" -> {e \in turns : e.session_id # id}
           [] OTHER -> turns
    ELSE turns

\* history: the ids whose release the backend has served (api.py 171-178),
\* the answer seen by the client or not
released_after(id, answer, ids) ==
  IF answer \in {"ok", "timeout"} THEN ids \cup {id} ELSE ids

NoSession == [session_id |-> 0]

\* BoothStateManager.__init__
InitStateManager ==
  [ state |-> "idle", session |-> NoSession, audio_buffer |-> <<>>,
    current_scene |-> "None", conversation_history |-> <<>>, error_message |-> "None" ]

transition_to(sm, new_state, error_message) ==
  [sm EXCEPT !.state = new_state, !.error_message = error_message]

\* BoothStateManager.start_session: SessionInfo.create draws a new uuid4
BoothStateManager_start_session(sm, id) ==
  [sm EXCEPT !.session = [session_id |-> id]]

end_session(sm) ==
  [sm EXCEPT !.session = NoSession, !.audio_buffer = <<>>, !.current_scene = "None",
             !.conversation_history = <<>>]

add_conversation_turn(sm, turn) ==
  LET h == Append(sm.conversation_history, turn)
  IN [sm EXCEPT !.conversation_history =
        IF Len(h) > 10 THEN SubSeq(h, Len(h) - 9, Len(h)) ELSE h]

IdleThread ==
  [ handler |-> "idle", pc |-> "idle", session |-> NoSession,
    attempt |-> 0, start_attempt |-> 0, outcome |-> "none",
    \* history of the client call
    posts |-> 0, start_posts |-> 0, starts |-> 0, n404 |-> 0, start_total |-> 0,
    last |-> "none", server_only |-> TRUE, delay |-> 0, waited |-> 0,
    \* the number of the speak call
    call |-> 0 ]

Reply(handler, status, id) == [handler |-> handler, status |-> status, session_id |-> id]

InitBooth ==
  /\ state_manager = InitStateManager
  /\ thr = [t \in Handlers |-> IdleThread]
  /\ ui = [next_session |-> 1, calls |-> 0, reply |-> Reply("none", 0, 0)]
  /\ bk = [alive |-> {}, forgets |-> 0, turns |-> {}, released |-> {}]

\* a request to the web UI is taken by the first idle handler thread
Invoke_within(t, limit) ==
  /\ thr[t].handler = "idle"
  /\ \A v \in Handlers : v < t => thr[v].handler # "idle"
  /\ ui.calls < limit

Invoke(t) == Invoke_within(t, MaxCalls)

\* the handler's reply; its thread is idle again
Finish(t, sm, handler, status) ==
  /\ state_manager' = sm
  /\ thr' = [thr EXCEPT ![t] = IdleThread]
  /\ ui' = [ui EXCEPT !.reply = Reply(handler, status, thr[t].session.session_id)]

\* pickup_phone, lines 73-82: the local session
pickup_phone_begin(t) ==
  /\ Invoke(t)
  /\ state_manager' = BoothStateManager_start_session(state_manager, ui.next_session)
  /\ thr' = [thr EXCEPT ![t] =
               [IdleThread EXCEPT !.handler = "pickup", !.pc = "start_post",
                                  !.session = [session_id |-> ui.next_session],
                                  !.starts = 1]]
  /\ ui' = [ui EXCEPT !.next_session = @ + 1, !.calls = @ + 1]
  /\ UNCHANGED <<bk, backend_vars, sel>>

\* BackendClient.start_session: one turn of its loop, for at most retries
\* attempts
start_session_attempt(t, answer, retries) ==
  /\ thr[t].pc = "start_post"
  /\ served("start", thr[t].session.session_id, answer, bk.alive)
  /\ bk' = [bk EXCEPT !.alive = alive_after("start", thr[t].session.session_id, answer, @)]
  /\ LET r == [thr[t] EXCEPT !.start_posts = @ + 1, !.start_total = @ + 1,
                             !.last = kind_of(answer), !.delay = 0,
                             !.server_only = @ /\ answer \in ServerErrors]
         \* start_session has returned True: the caller goes on
         returned ==
           IF r.handler = "pickup"
             THEN [r EXCEPT !.pc = "pickup_end", !.outcome = "true"]
             ELSE \* generate_response, line 130: continue
                  IF r.attempt + 1 < max_retries
                    THEN [r EXCEPT !.pc = "generate_post", !.attempt = @ + 1]
                    ELSE \* line 141
                         [r EXCEPT !.pc = "speak_error", !.attempt = @ + 1,
                                   !.outcome = "raised"]
         raised ==
           [r EXCEPT !.pc = IF r.handler = "pickup" THEN "pickup_end" ELSE "speak_error",
                     !.outcome = "raised"]
     IN thr' = [thr EXCEPT ![t] =
          IF make_request(answer) \in {"response", "SessionNotFoundError"}
            THEN returned
            ELSE IF r.start_attempt < retries - 1
                   THEN [r EXCEPT !.start_attempt = @ + 1, !.delay = retry_delay_s,
                                  !.waited = @ + retry_delay_s]
                   ELSE raised]
  /\ UNCHANGED <<state_manager, ui, backend_vars, sel>>

start_session(t, answer) == start_session_attempt(t, answer, max_retries)

\* pickup_phone, lines 85-104
pickup_phone_end(t) ==
  /\ thr[t].pc = "pickup_end"
  /\ IF thr[t].outcome = "true"
       THEN Finish(t, transition_to(state_manager, "pickup", "None"), "pickup", 200)
       ELSE Finish(t, transition_to(state_manager, "error", "BackendError"), "pickup", 500)
  /\ UNCHANGED <<bk, backend_vars, sel>>

\* speak, lines 136-147: the two 400 answers
speak_begin(t, has_message) ==
  /\ Invoke(t)
  /\ IF state_manager.session = NoSession \/ ~has_message
       THEN /\ ui' = [ui EXCEPT !.calls = @ + 1, !.reply = Reply("speak", 400, 0)]
            /\ UNCHANGED thr
       ELSE /\ ui' = [ui EXCEPT !.calls = @ + 1]
            /\ thr' = [thr EXCEPT ![t] =
                         [IdleThread EXCEPT !.handler = "speak", !.pc = "speak_prepare",
                                            !.call = ui.calls + 1]]
  /\ UNCHANGED <<state_manager, bk, backend_vars, sel>>

\* speak, lines 149-154; without a session line 150 raises AttributeError,
\* which the handler answers at lines 218-223
speak_prepare(t) ==
  /\ thr[t].pc = "speak_prepare"
  /\ IF state_manager.session = NoSession
       THEN Finish(t, transition_to(state_manager, "error", "AttributeError"), "speak", 500)
       ELSE /\ state_manager' = transition_to(state_manager, "processing", "None")
            /\ thr' = [thr EXCEPT ![t].pc = "speak_call"]
            /\ UNCHANGED ui
  /\ UNCHANGED <<bk, backend_vars, sel>>

\* speak, lines 158-164: the session handed to generate_response, whose
\* line 110 raises AttributeError on None
speak_call(t) ==
  /\ thr[t].pc = "speak_call"
  /\ IF state_manager.session = NoSession
       THEN Finish(t, transition_to(state_manager, "error", "AttributeError"), "speak", 500)
       ELSE /\ thr' = [thr EXCEPT ![t].pc = "generate_post",
                                  ![t].session = state_manager.session]
            /\ UNCHANGED <<state_manager, ui>>
  /\ UNCHANGED <<bk, backend_vars, sel>>

\* BackendClient.generate_response: one turn of its loop, for at most
\* retries attempts
generate_response_attempt(t, answer, retries) ==
  /\ thr[t].pc = "generate_post"
  /\ served("generate", thr[t].session.session_id, answer, bk.alive)
  /\ bk' = [bk EXCEPT !.alive = alive_after("generate", thr[t].session.session_id, answer, @),
                       !.turns = turns_after("generate", thr[t].session.session_id,
                                             thr[t].call, answer, bk.alive, @)]
  /\ LET r == [thr[t] EXCEPT !.posts = @ + 1, !.last = kind_of(answer), !.delay = 0,
                             !.server_only = @ /\ answer \in ServerErrors]
         result == make_request(answer)
     IN thr' = [thr EXCEPT ![t] =
          CASE result = "response" ->
                 [r EXCEPT !.pc = "speak_finish", !.outcome = "returned"]
            [] result = "SessionNotFoundError" ->
                 \* line 128: start_session(session)
                 [r EXCEPT !.pc = "start_post", !.n404 = @ + 1, !.starts = @ + 1,
                           !.start_attempt = 0, !.start_posts = 0]
            [] OTHER ->
                 IF r.attempt < retries - 1
                   THEN [r EXCEPT !.attempt = @ + 1, !.delay = retry_delay_s,
                                  !.waited = @ + retry_delay_s]
                   ELSE [r EXCEPT !.pc = "speak_error", !.outcome = "raised"]]
  /\ UNCHANGED <<state_manager, ui, backend_vars, sel>>

\* a client that allows itself one attempt more
generate_response_once_more(t, answer) ==
  generate_response_attempt(t, answer, max_retries + 1)

\* a client that gives up at the first failure
generate_response_once(t, answer) == generate_response_attempt(t, answer, 1)

generate_response(t, answer) == generate_response_attempt(t, answer, max_retries)

\* speak, lines 165-183: the reply is synthesized and recorded
speak_finish(t, tts_ok) ==
  /\ thr[t].pc = "speak_finish"
  /\ IF ~tts_ok
       THEN Finish(t, transition_to(state_manager, "error", "Exception"), "speak", 500)
       ELSE /\ state_manager' =
                 transition_to(
                   add_conversation_turn(state_manager,
                                         [session_id |-> thr[t].session.session_id]),
                   "speaking", "None")
            /\ thr' = [thr EXCEPT ![t].pc = "speak_reply"]
            /\ UNCHANGED ui
  /\ UNCHANGED <<bk, backend_vars, sel>>

\* speak, lines 186-210; lines 192 and 209 read state_manager.session
speak_reply(t) ==
  /\ thr[t].pc = "speak_reply"
  /\ IF state_manager.session = NoSession
       THEN Finish(t, transition_to(state_manager, "error", "AttributeError"), "speak", 500)
       ELSE Finish(t, state_manager, "speak", 200)
  /\ UNCHANGED <<bk, backend_vars, sel>>

\* a handler that answers 500 and leaves the state as it is
speak_error_stuck(t) ==
  /\ thr[t].pc = "speak_error"
  /\ Finish(t, state_manager, "speak", 500)
  /\ UNCHANGED <<bk, backend_vars, sel>>

\* speak, lines 212-217: the BackendError of generate_response
speak_error(t) ==
  /\ thr[t].pc = "speak_error"
  /\ Finish(t, transition_to(state_manager, "error", "BackendError"), "speak", 500)
  /\ UNCHANGED <<bk, backend_vars, sel>>

\* hangup_phone, line 111
hangup_phone_begin_within(t, limit) ==
  /\ Invoke_within(t, limit)
  /\ thr' = [thr EXCEPT ![t] =
               [IdleThread EXCEPT !.handler = "hangup",
                                  !.pc = IF state_manager.session # NoSession
                                           THEN "release_post" ELSE "hangup_transition"]]
  /\ ui' = [ui EXCEPT !.calls = @ + 1]
  /\ UNCHANGED <<state_manager, bk, backend_vars, sel>>

hangup_phone_begin(t) == hangup_phone_begin_within(t, MaxCalls)

\* hangup_phone, line 113, and BackendClient.release_session, whose except
\* clause catches the exceptions named in caught; what it does not catch
\* reaches the handler's lines 124-129
release_session_catching(t, answer, caught) ==
  /\ thr[t].pc = "release_post"
  /\ IF state_manager.session = NoSession
       THEN /\ Finish(t, transition_to(state_manager, "error", "AttributeError"), "hangup", 500)
            /\ UNCHANGED bk
       ELSE /\ served("release", state_manager.session.session_id, answer, bk.alive)
            /\ bk' = [bk EXCEPT !.alive =
                        alive_after("release", state_manager.session.session_id, answer, @),
                                 !.turns = turns_after("release",
                                                       state_manager.session.session_id, 0,
                                                       answer, bk.alive, @),
                                 !.released = released_after(state_manager.session.session_id,
                                                             answer, @)]
            /\ IF make_request(answer) \in {"response"} \cup caught
                 THEN /\ thr' = [thr EXCEPT ![t].pc = "hangup_end_session",
                                            ![t].session = state_manager.session,
                                            ![t].last = kind_of(answer),
                                            ![t].outcome = IF make_request(answer) = "response"
                                                             THEN "true" ELSE "false"]
                      /\ UNCHANGED <<state_manager, ui>>
                 ELSE Finish(t, transition_to(state_manager, "error", make_request(answer)),
                             "hangup", 500)
  /\ UNCHANGED <<backend_vars, sel>>

\* a client whose release lets every failure through
release_session_uncaught(t, answer) == release_session_catching(t, answer, {})

\* except BackendError: SessionNotFoundError is a BackendError
release_session(t, answer) ==
  release_session_catching(t, answer, {"BackendError", "SessionNotFoundError"})

\* hangup_phone, line 116
hangup_phone_end_session(t) ==
  /\ thr[t].pc = "hangup_end_session"
  /\ state_manager' = end_session(state_manager)
  /\ thr' = [thr EXCEPT ![t].pc = "hangup_transition"]
  /\ UNCHANGED <<ui, bk, backend_vars, sel>>

\* hangup_phone, lines 118-122
hangup_phone(t) ==
  /\ thr[t].pc = "hangup_transition"
  /\ Finish(t, transition_to(state_manager, "hangup", "None"), "hangup", 200)
  /\ UNCHANGED <<bk, backend_vars, sel>>

\* the backend loses a session: its ttl has passed, or the process with its
\* in-memory store was restarted
backend_forgets_within(id, limit) ==
  /\ bk.forgets < limit
  /\ id \in bk.alive
  /\ bk' = [bk EXCEPT !.alive = @ \ {id}, !.forgets = @ + 1,
                       !.turns = turns_after("release", id, 0, "ok", bk.alive, @)]
  /\ UNCHANGED <<state_manager, thr, ui, backend_vars, sel>>

backend_forgets(id) == backend_forgets_within(id, MaxForgets)

\* ------------------------------------------------------------------------
\* One call of select_template_autonomous on a text and a features argument
\* ------------------------------------------------------------------------
SelectTexts ==
  { <<"G", "i", "v", "e", " ", "m", "e", " ", "a", " ", "r", "i", "d", "d", "l", "e">>,
    <<"h", "i", " ", "t", "h", "e", "r", "e">>,
    <<"z", "z", "z", "q", "q", " ", "f", "l", "i", "b", "b", "e", "r">>,
    <<>>,
    <<"n", "i", "c", "e", " ", "o", "u", "t", "f", "i", "t">>,
    <<"t", "e", "l", "l", " ", "m", "e", " ", "a", " ", "s", "t", "o", "r", "y">>,
    <<"I", " ", "h", "a", "v", "e", " ", "a", " ", "p", "r", "o", "b", "l", "e", "m">>,
    <<"r", "i", "d", "l", "e">>,
    <<"I", " ", "w", "o", "n", "d", "e", "r">>,
    <<"q", "u", "e", "s", "t", "i", "o", "n">>,
    <<"s", "t", "y", "l", "e">>,
    <<"H", "e", "l", "l", "o">>,
    <<"w", "h", "a", "t", "'", "s", " ", "u", "p">>,
    <<"h", "i", " ", "r", "i", "d", "l", "e", " ", "r", "i", "d", "l", "e", " ", "r", "i", "d", "l", "e", " ", "r", "i", "d", "l", "e", " ", "r", "i", "d", "l", "e">>,
    <<"t", "h", "i", "s">> }

SelectFeatures ==
  { None_features,
    [webcam |-> FALSE, keypad |-> FALSE],
    [webcam |-> TRUE, keypad |-> FALSE],
    [keypad |-> TRUE],
    [webcam |-> TRUE, keypad |-> TRUE] }

NoSelect ==
  [pc |-> "idle", user_input |-> <<>>, available_features |-> None_features,
   scores |-> <<>>, result |-> ""]

InitSelect ==
  sel \in {[NoSelect EXCEPT !.pc = "call", !.user_input = u, !.available_features = f] :
             u \in SelectTexts, f \in SelectFeatures}

select_call ==
  /\ sel.pc = "call"
  /\ LET scores == template_scores(sel.user_input, sel.available_features)
     IN sel' = [sel EXCEPT !.pc = "done", !.scores = scores, !.result = best_of(scores)]
  /\ UNCHANGED <<backend_vars, booth_vars>>

\* ------------------------------------------------------------------------
\* Specifications: the backend, the booth, and the selection call
\* ------------------------------------------------------------------------
Init == InitBackend /\ InitBooth /\ sel = NoSelect


Next ==
  \/ \E w \in Workers, id \in OneSession \cup MalformedIds, p \in StartPersonalities :
       session_start_begin(w, id, "booth-01", p, "chat")
  \/ \E w \in Workers : session_start(w)
  \/ \E w \in Workers, id \in OneSession \cup MalformedIds, t \in UserTexts,
        p \in OverridePersonalities :
       generate_lookup(w, id, t, p, "")
  \/ \E w \in Workers, f \in BOOLEAN : generate_engine(w, f)
  \/ \E w \in Workers, x \in BOOLEAN : generate_append_user(w, x)
  \/ \E w \in Workers, x \in BOOLEAN : generate_append_assistant(w, x)
  \/ \E w \in Workers : generate(w)
  \/ \E w \in Workers, id \in OneSession \cup MalformedIds : session_release(w, id)
  \/ Tick
  \/ Sweep

Spec == Init /\ [][Next]_vars

\* the backend with the echo engine, serving requests for two sessions
InitPair == Init /\ engine = "echo"

NextPair ==
  \/ \E w \in Workers, id \in SessionIds, p \in StartPersonalities :
       session_start_begin(w, id, "booth-01", p, "chat")
  \/ \E w \in Workers : session_start(w)
  \/ \E w \in Workers, id \in SessionIds, t \in UserTexts :
       generate_lookup(w, id, t, "", "")
  \/ \E w \in Workers : generate_engine(w, FALSE)
  \/ \E w \in Workers, x \in BOOLEAN : generate_append_user(w, x)
  \/ \E w \in Workers, x \in BOOLEAN : generate_append_assistant(w, x)
  \/ \E w \in Workers : generate(w)
  \/ \E w \in Workers, id \in SessionIds : session_release(w, id)
  \/ Tick
  \/ Sweep

SpecPair == InitPair /\ [][NextPair]_vars

InitClient ==
  /\ InitBooth
  /\ now = 0 /\ store = {} /\ next_obj = 1 /\ next_rid = 1
  /\ req = [w \in Workers |-> IdleRequest] /\ resp = NoResponse /\ engine = "echo"
  /\ released = {}
  /\ sel = NoSelect

NextClient ==
  \/ \E t \in Handlers : pickup_phone_begin(t)
  \/ \E t \in Handlers, a \in Answers : start_session(t, a)
  \/ \E t \in Handlers : pickup_phone_end(t)
  \/ \E t \in Handlers, m \in BOOLEAN : speak_begin(t, m)
  \/ \E t \in Handlers : speak_prepare(t)
  \/ \E t \in Handlers : speak_call(t)
  \/ \E t \in Handlers, a \in Answers : generate_response(t, a)
  \/ \E t \in Handlers, ok \in BOOLEAN : speak_finish(t, ok)
  \/ \E t \in Handlers : speak_reply(t)
  \/ \E t \in Handlers : speak_error(t)
  \/ \E t \in Handlers : hangup_phone_begin(t)
  \/ \E t \in Handlers, a \in Answers : release_session(t, a)
  \/ \E t \in Handlers : hangup_phone_end_session(t)
  \/ \E t \in Handlers : hangup_phone(t)
  \/ \E id \in 1..MaxCalls : backend_forgets(id)

SpecClient == InitClient /\ [][NextClient]_vars

\* one call of generate_response by the speak handler that follows a
\* pickup, the backend losing the session up to once per attempt
InitCall ==
  /\ state_manager =
       transition_to(BoothStateManager_start_session(InitStateManager, 1), "processing", "None")
  /\ thr = [t \in Handlers |->
              IF t = 1
                THEN [IdleThread EXCEPT !.handler = "speak", !.pc = "generate_post",
                                        !.session = [session_id |-> 1], !.call = 2]
                ELSE IdleThread]
  /\ ui = [next_session |-> 2, calls |-> 2, reply |-> Reply("pickup", 200, 1)]
  /\ bk = [alive |-> {1}, forgets |-> 0, turns |-> {}, released |-> {}]
  /\ now = 0 /\ store = {} /\ next_obj = 1 /\ next_rid = 1
  /\ req = [w \in Workers |-> IdleRequest] /\ resp = NoResponse /\ engine = "echo"
  /\ released = {}
  /\ sel = NoSelect

generate_response_step == \E a \in Answers : generate_response(1, a)

start_session_step == \E a \in Answers : start_session(1, a)

NextCall ==
  \/ generate_response_step
  \/ start_session_step
  \/ backend_forgets_within(1, max_retries)

\* every request of the client is answered or times out (httpx timeout)
SpecCall ==
  /\ InitCall /\ [][NextCall]_vars
  /\ WF_vars(generate_response_step) /\ WF_vars(start_session_step)

\* the hangup requests, two at most, that arrive while that call of
\* generate_response is in flight or after it
NextHangup ==
  \/ \E a \in Answers : generate_response(1, a)
  \/ \E a \in Answers : start_session(1, a)
  \/ \E ok \in BOOLEAN : speak_finish(1, ok)
  \/ speak_reply(1)
  \/ speak_error(1)
  \/ \E t \in Handlers : hangup_phone_begin_within(t, MaxCalls + 2)
  \/ \E t \in Handlers, a \in Answers : release_session(t, a)
  \/ \E t \in Handlers : hangup_phone_end_session(t)
  \/ \E t \in Handlers : hangup_phone(t)

SpecHangup == InitCall /\ [][NextHangup]_vars

\* the backend holding one session as a session/start and one /generate,
\* served earlier, have left it: with history_max_turns = 2 its history is
\* full.  next_rid numbers the requests that follow; the turns of the
\* earlier request carry the number 0
full_session ==
  LET session == Session("u1", "booth-01", "trickster", "chat", 0, 1)
      messages == << [role |-> "user", content |-> Text_riddle] >>
      user == Turn("user", Text_riddle, 0, 0, 1)
      assistant == Turn("assistant", EchoEngine_generate(messages).text, 0, 0, 1)
      started == [created |-> TRUE, expires_in_seconds |-> ttl_seconds, obj |-> 1,
                  concurrent |-> FALSE]
  IN CHOOSE s \in truncate_history(
                    append_turn(append_turn({[session EXCEPT !.starts = <<started>>]},
                                            "u1", user, 0),
                                "u1", assistant, 0),
                    1, history_max_turns) : TRUE

InitFull ==
  /\ now = 0 /\ store = {full_session} /\ next_obj = 2 /\ next_rid = 1
  /\ req = [w \in Workers |-> IdleRequest] /\ resp = NoResponse /\ engine = "echo"
  /\ released = {}
  /\ InitBooth
  /\ sel = NoSelect

NextFull ==
  \/ \E w \in Workers, id \in OneSession, t \in UserTexts : generate_lookup(w, id, t, "", "")
  \/ \E w \in Workers : generate_engine(w, FALSE)
  \/ \E w \in Workers : generate_append_user(w, FALSE)
  \/ \E w \in Workers : generate_append_assistant(w, FALSE)
  \/ \E w \in Workers : generate(w)

SpecFull == InitFull /\ [][NextFull]_vars

InitSelectCall ==
  /\ InitSelect
  /\ InitBooth
  /\ now = 0 /\ store = {} /\ next_obj = 1 /\ next_rid = 1
  /\ req = [w \in Workers |-> IdleRequest] /\ resp = NoResponse /\ engine = "echo"
  /\ released = {}

NextSelect == select_call

SpecSelect == InitSelectCall /\ [][NextSelect]_vars

\* ------------------------------------------------------------------------
\* Properties of the backend
\* ------------------------------------------------------------------------

\* C1: two session/start calls with the same id and no release or expiry in
\* between answer created=true, then created=false, and both carry the same
\* expires_in_seconds: of the start responses that name one stored record,
\* the first and only the first says created=true, and all agree on
\* expires_in_seconds.
C1_IdempotentStart ==
  \A s \in store :
    \A i \in 1..Len(s.starts) :
      /\ s.starts[i].created = (i = 1)
      /\ s.starts[i].expires_in_seconds = s.starts[1].expires_in_seconds

\* a record that was started twice, one call after the other
C1_Witness ==
  \E s \in store :
    /\ Len(s.starts) = 2
    /\ ~s.starts[1].concurrent
    /\ ~s.starts[2].created
    /\ resp.kind = "start" /\ resp.status = 200

\* C6: when the engine fails during /generate the request still answers 200
\* with a degraded reply whose usage counts are all zero.
C6_EngineFailureDegraded ==
  (resp.kind = "generate" /\ resp.engine_failed) =>
     /\ resp.status = 200
     /\ resp.usage = Usage(0, 0, 0)

complete_pairs(s) ==
  /\ \A i \in 1..Len(s.log) : s.log[i].via = s.obj
  /\ \A i \in 1..Len(s.log) :
       Cardinality({j \in 1..Len(s.log) : s.log[j].rid = s.log[i].rid}) = 2
  /\ \A w \in Workers :
       req[w].session_id = s.session_id => req[w].pc \notin {"append_assistant", "truncate"}

\* C7: after k generate calls on one session have appended 2k turns with
\* 2k > history_max_turns (all calls made on this session record and none of
\* them still between its appends and its truncation), the session holds
\* exactly history_max_turns turns: the most recently appended ones, in order.
C7_Truncation ==
  \A s \in store :
    (complete_pairs(s) /\ Len(s.log) > history_max_turns) =>
       /\ Len(s.turns) = history_max_turns
       /\ \A i \in 1..history_max_turns :
            s.turns[i] = s.log[Len(s.log) - history_max_turns + i]

C7_Witness ==
  \E s \in store :
    /\ complete_pairs(s)
    /\ Len(s.log) > history_max_turns
    /\ resp.kind = "generate" /\ resp.status = 200 /\ resp.appended = 2

\* C8: in session.turns each request's user turn is immediately followed by
\* that request's assistant turn, under any interleaving of /generate
\* requests for the same session.
C8_Serialized ==
  \A s \in store :
    \A i \in 1..Len(s.turns) :
      /\ (s.turns[i].role = "user" /\ i < Len(s.turns)) =>
            /\ s.turns[i + 1].role = "assistant"
            /\ s.turns[i + 1].rid = s.turns[i].rid
      /\ (s.turns[i].role = "assistant" /\ i > 1) =>
            /\ s.turns[i - 1].role = "user"
            /\ s.turns[i - 1].rid = s.turns[i].rid

\* C9: of concurrent session/start requests with one id exactly one answers
\* created=true, the others answer created=false and name the same stored
\* record, and the store never holds two records of one id.
C9_AtomicStart ==
  /\ \A s1, s2 \in store : s1.session_id = s2.session_id => s1 = s2
  /\ \A s \in store :
       /\ Cardinality({i \in 1..Len(s.starts) : s.starts[i].created}) = 1
       /\ \A i \in 1..Len(s.starts) : s.starts[i].obj = s.obj

\* two starts of one id were in flight together and both have answered
C9_Witness ==
  \E s \in store :
    /\ Len(s.starts) = 2
    /\ s.starts[1].concurrent
    /\ req = [w \in Workers |-> IdleRequest]

\* C10: a session older than ttl_seconds behaves as absent, swept or not:
\* /generate answers 404 without calling the engine or appending a turn,
\* nothing is appended to the expired record, and session/start inserts a
\* fresh record and answers created=true.
C10_ExpiredIsAbsent ==
  [][ /\ (resp'.kind = "generate" /\ (resp'.seen_expired \/ resp'.seen_none)) =>
           /\ resp'.status = 404
           /\ ~resp'.engine_called
           /\ resp'.appended = 0
      /\ (resp' # resp /\ resp'.kind = "start" /\ resp'.status = 200
            /\ (resp'.seen_expired \/ resp'.seen_none)) =>
           /\ resp'.created
           /\ \E s \in store' :
                /\ s.session_id = resp'.session_id
                /\ s.obj = resp'.obj
                /\ s.turns = <<>>
                /\ Len(s.starts) = 1
      /\ \A s \in store :
           (now - s.created_at > s.ttl_seconds) =>
              \A s2 \in store' : s2.obj = s.obj => s2.log = s.log
    ]_vars

\* an expired record that has not been swept was asked for by /generate
C10_Witness ==
  /\ resp.kind = "generate"
  /\ resp.seen_expired
  /\ resp.status = 404
  /\ \E s \in store : s.session_id = resp.session_id /\ now - s.created_at > s.ttl_seconds

\* C11: after release(id) the store holds no session of that id, and every
\* /generate for that id that is looked up after the release answers 404,
\* without calling the engine or appending a turn, until a session/start
\* has created the id again.
C11_ReleasedIsAbsent ==
  [][ /\ \A id \in released' : store_get(store', id, now') = {}
      /\ (resp' # resp /\ resp'.kind = "generate" /\ resp'.after_release) =>
           /\ resp'.status = 404
           /\ ~resp'.engine_called
           /\ resp'.appended = 0
    ]_vars

\* a /generate for an id that was live, was released and not started again
C11_Witness ==
  /\ resp.kind = "generate" /\ resp.after_release /\ resp.status = 404
  /\ resp.session_id \in released

\* C12: releasing an id that is absent (never created, already released, or
\* expired) answers ok and changes nothing that the store answers for: every
\* release of a well-formed id answers 200, a release of an id the store has
\* no record of leaves the store as it is, and a release of an id whose
\* record has expired leaves the live records as they are.
C12_ReleaseIdempotent ==
  [][ (resp' # resp /\ resp'.kind = "release" /\ resp'.session_id \in SessionIds) =>
        /\ resp'.status = 200
        /\ resp'.seen_none => store' = store
        /\ (resp'.seen_none \/ resp'.seen_expired) => sweep(store', now') = sweep(store, now)
    ]_vars

\* the second of two releases of one id, with no start in between
C12_Witness ==
  /\ resp.kind = "release" /\ resp.status = 200
  /\ resp.after_release /\ resp.seen_none

\* ------------------------------------------------------------------------
\* Properties of the booth's client and handlers
\* ------------------------------------------------------------------------

\* C2: a generate call of the client that receives a 404 issues exactly one
\* session/start and then retries generate exactly once; a further 404 after
\* that recovery is a hard failure, with no additional start call and no
\* additional generate attempt.  So one generate_response call makes at most
\* one start_session call, and it has raised once it received a second 404.
C2_RecoverOnce ==
  \A t \in Handlers :
    thr[t].handler = "speak" =>
      /\ thr[t].starts <= 1
      /\ thr[t].n404 >= 2 => thr[t].outcome = "raised"

\* C3: a start or generate call of the client that fails with a server error
\* (5xx) or a network error is retried up to max_retries times with a delay
\* of retry_delay_s between attempts; the error is raised only when the
\* attempts are used up, and the call never returns a response when every
\* attempt failed.  Each loop makes at most max_retries requests; a request
\* that follows a server error was preceded by the delay; a call that met
\* nothing but server errors raises only after max_retries requests and
\* max_retries - 1 delays; and a call returns only on an answer of the
\* backend (generate: a 200).
C3_RetryPolicy ==
  \A t \in Handlers :
    LET r == thr[t]
    IN r.handler \in {"pickup", "speak"} =>
         /\ r.posts <= max_retries /\ r.start_posts <= max_retries
         /\ (r.pc \in {"start_post", "generate_post"} /\ r.last = "server_error")
              => r.delay = retry_delay_s
         /\ (r.outcome = "raised" /\ r.server_only)
              => /\ r.posts = max_retries \/ r.start_posts = max_retries
                 /\ r.waited = (max_retries - 1) * retry_delay_s
         /\ r.outcome = "returned" => r.last = "ok" /\ ~r.server_only
         /\ r.outcome = "true" => r.last \in {"ok", "not_found"} /\ ~r.server_only

\* a generate call that met a server error at each of its max_retries
\* attempts, slept between them and has raised
C3_Witness ==
  \E t \in Handlers :
    /\ thr[t].handler = "speak" /\ thr[t].outcome = "raised" /\ thr[t].server_only
    /\ thr[t].posts = max_retries
    /\ thr[t].waited = (max_retries - 1) * retry_delay_s

\* C4: after a hangup the booth is IDLE again, the backend session is
\* released, the local session is cleared and the audio buffer and the
\* conversation history are empty: once the hangup handler has ended a
\* session and answered, and no handler is running, all of this holds.
C4_HangupReturnsToIdle ==
  (/\ ui.reply.handler = "hangup" /\ ui.reply.status = 200 /\ ui.reply.session_id # 0
   /\ \A t \in Handlers : thr[t].handler = "idle")
  => /\ state_manager.state = "idle"
     /\ ui.reply.session_id \notin bk.alive
     /\ state_manager.session = NoSession
     /\ state_manager.audio_buffer = <<>>
     /\ state_manager.conversation_history = <<>>

\* the records the store holds under an id
records(st, id) == {s \in st : s.session_id = id}

\* C23: operations on different sessions are independent: under any
\* interleaving, the records of a session id B (presence, fields, turns)
\* change only in a step of a request for B, or in the sweep of the expired
\* records; a session/start, generate or release for another id A leaves
\* them as they are.
C23_Independent ==
  [][ \A B \in SessionIds :
        records(store', B) # records(store, B) =>
          \/ \E w \in Workers : req[w].session_id = B /\ req'[w] # req[w]
          \/ resp' # resp /\ resp'.kind = "release" /\ resp'.session_id = B
          \/ /\ req' = req /\ resp' = resp
             /\ records(store', B) = records(sweep(store, now), B)
    ]_vars

\* a release of u1 that removed a record has been answered while u2 holds its
\* live session
C23_Witness ==
  /\ resp.kind = "release" /\ resp.session_id = "u1" /\ resp.status = 200
  /\ ~resp.seen_none
  /\ \E s \in records(store, "u2") : ~expired(s, now)

\* the message list of lines 103-107 for a stored session and a user text
messages_of(session, user_text) ==
  [i \in 1..Len(session.turns) |->
     [role |-> session.turns[i].role, content |-> session.turns[i].content]]
  \o << [role |-> "user", content |-> user_text] >>

\* C24: for every /generate on a live session the engine is invoked with a
\* message list that consists of all turns stored in the session when the
\* handler reads it, in their stored order, followed by exactly one new user
\* message whose content is the request's user_text: the list the handler
\* builds is that list, and it reaches the engine as built.
C24_Messages ==
  [][ \A w \in Workers :
        /\ (req[w].pc = "idle" /\ req'[w].pc = "engine") =>
             \E s \in store_get(store, req'[w].session_id, now) :
               req'[w].messages = messages_of(s, req'[w].user_text)
        /\ (req[w].pc = "engine" /\ req'[w] # req[w]) =>
             /\ req[w].messages[Len(req[w].messages)] =
                  [role |-> "user", content |-> req[w].user_text]
             /\ (engine = "echo" /\ req'[w].pc = "append_user") =>
                  req'[w].text = strip(echo_prefix \o req[w].user_text)
    ]_vars

\* the engine has been invoked with a stored user turn, a stored assistant
\* turn and the new user message
C24_Witness ==
  \E w \in Workers :
    /\ req[w].pc = "append_user" /\ req[w].engine_called
    /\ Len(req[w].messages) = 3
    /\ req[w].messages[1].role = "user" /\ req[w].messages[2].role = "assistant"

\* C25 as stated: every /generate that returns a reply has appended exactly
\* two turns to the session before truncation.
C25_TwoTurnsRecorded ==
  (resp.kind = "generate" /\ resp.status = 200) => resp.appended = 2

\* the step of worker w is its append_turn call from pc, and the session is
\* live: its record gains one turn, of this role, content and timestamp
appends_turn(w, pc, role, content, ts) ==
  (/\ req[w].pc = pc /\ req'[w].pc # pc /\ req'[w].pc # "idle"
   /\ store_get(store, req[w].session_id, now) # {}) =>
    \A s \in store_get(store, req[w].session_id, now) :
      \E s2 \in store' :
        /\ s2.session_id = s.session_id
        /\ Len(s2.turns) = Len(s.turns) + 1
        /\ SubSeq(s2.turns, 1, Len(s.turns)) = s.turns
        /\ s2.turns[Len(s2.turns)].role = role
        /\ s2.turns[Len(s2.turns)].content = content
        /\ s2.turns[Len(s2.turns)].ts = ts
        /\ s2.turns[Len(s2.turns)].rid = req[w].rid

\* C25, amended: every /generate that returns a reply has called append_turn
\* exactly twice before truncation, first with a user turn holding the
\* request's user_text and then with an assistant turn holding the returned
\* text, both with the same timestamp; each call adds its turn to the
\* session if the session is live at that moment, and a session released or
\* expired during the call receives none, so that at most two turns, and
\* two for a session that stays live, are recorded.
C25_TwoAppends ==
  [][ \A w \in Workers :
        /\ appends_turn(w, "append_user", "user", req[w].user_text, now)
        /\ appends_turn(w, "append_assistant", "assistant", req[w].text, req[w].ts)
        /\ (req[w].pc = "append_user" /\ req'[w].pc = "append_assistant") =>
             req'[w].ts = now
        /\ (req[w].pc = "truncate" /\ req'[w].pc = "idle") =>
             /\ resp'.status = 200 /\ resp'.text = req[w].text
             /\ resp'.appended <= 2
        /\ (resp' # resp /\ resp'.kind = "generate" /\ resp'.status = 200) =>
             \E v \in Workers : req[v].pc = "truncate" /\ req'[v].pc = "idle"
    ]_vars

\* a reply was returned and the session's record ends with the request's
\* user turn and assistant turn, of one timestamp
C25_Witness ==
  /\ resp.kind = "generate" /\ resp.status = 200 /\ resp.appended = 2
  /\ \E s \in store :
       /\ Len(s.turns) >= 2
       /\ LET u == s.turns[Len(s.turns) - 1]
              a == s.turns[Len(s.turns)]
          IN /\ u.role = "user" /\ u.content = resp.user_text /\ u.rid = resp.rid
             /\ a.role = "assistant" /\ a.content = resp.text /\ a.rid = resp.rid
             /\ u.ts = a.ts

\* C26: the selected_mode returned by /generate is the name of the template
\* whose system prompt was passed to the engine for that call.
C26_SelectedMode ==
  [][ \A w \in Workers :
        (req[w].pc = "truncate" /\ req'[w].pc = "idle") =>
          /\ req[w].engine_called
          /\ resp'.selected_mode = req[w].system_prompt.template
          /\ resp'.rid = req[w].rid
    ]_vars

\* a generate whose engine call had the prompt of riddles has answered
\* selected_mode riddles
C26_Witness ==
  /\ resp.kind = "generate" /\ resp.status = 200 /\ resp.engine_called
  /\ resp.selected_mode = "riddles"

\* C27: the generation parameters are those of the selected template only
\* when it sets values other than the defaults; for a template that leaves
\* max_tokens and temperature at their defaults the engine is passed the
\* configured llm.max_tokens and llm.temperature.
C27_GenerationParameters ==
  \A w \in Workers :
    (req[w].kind = "generate" /\ req[w].pc # "idle") =>
      LET t == template_named(req[w].selected)
      IN /\ req[w].max_tokens = IF t.max_tokens = default_max_tokens
                                  THEN llm_max_tokens ELSE t.max_tokens
         /\ req[w].temperature = IF t.temperature = default_temperature
                                   THEN llm_temperature ELSE t.temperature

\* C28: in every reachable state, the states between the appends and the
\* truncation of a generate call included, each session holds at most
\* history_max_turns turns.
C28_Bounded ==
  \A s \in store : Len(s.turns) <= history_max_turns

\* C29: the booth_id, personality and mode of a stored session never change
\* after its creation, and its turns change only by an appended turn and by
\* truncation: a session/start for an id that holds a live session leaves
\* that session, fields and turns, in the store, and the lookup of a
\* /generate, overrides included, writes nothing to the store.
C29_FieldsFrozen ==
  [][ /\ \A s \in store : \A s2 \in store' :
           s2.obj = s.obj =>
             /\ s2.session_id = s.session_id /\ s2.booth_id = s.booth_id
             /\ s2.personality = s.personality /\ s2.mode = s.mode
             /\ s2.created_at = s.created_at
             /\ \/ s2.turns = s.turns
                \/ /\ Len(s2.turns) = Len(s.turns) + 1
                   /\ SubSeq(s2.turns, 1, Len(s.turns)) = s.turns
                \/ s2.turns = last_turns(s.turns, history_max_turns)
      /\ \A w \in Workers :
           (req[w].pc = "start_store" /\ req'[w] # req[w]) =>
             \A s \in store_get(store, req[w].session_id, now) :
               \E s2 \in store' : s2.obj = s.obj
      /\ \A w \in Workers :
           (req[w].pc = "idle" /\ req'[w].pc = "engine") => store' = store
    ]_vars

\* a session/start for an id whose live session holds turns has answered
\* created=false, and the session still holds them
C29_Witness ==
  /\ resp.kind = "start" /\ resp.status = 200 /\ ~resp.created
  /\ \E s \in store_get(store, resp.session_id, now) :
       /\ Len(s.turns) > 0
       /\ s.obj = resp.obj /\ s.personality = "trickster"

\* C13: the client's release is best-effort: whatever the backend answers
\* (404, another 4xx, 5xx, no connection, a lost answer, a body that is not
\* JSON), release_session returns to hangup_phone, True on a 200 and False
\* otherwise, and the handler goes on to end the local session; the booth
\* state is not touched.
C13_BestEffortRelease ==
  [][ \A t \in Handlers :
        (thr[t].pc = "release_post" /\ thr'[t] # thr[t]
           /\ state_manager.session # NoSession) =>
          /\ thr'[t].pc = "hangup_end_session"
          /\ thr'[t].outcome = IF thr'[t].last = "ok" THEN "true" ELSE "false"
          /\ state_manager' = state_manager
          /\ ui' = ui
    ]_vars

\* a release that the backend did not answer with a 200 has returned False
C13_Witness ==
  \E t \in Handlers :
    /\ thr[t].handler = "hangup" /\ thr[t].pc = "hangup_end_session"
    /\ thr[t].outcome = "false"
    /\ thr[t].last \in {"not_found", "client_error", "server_error", "other_error"}

\* C14: a 400-class answer of the backend fails fast at the client: the call
\* is not retried and no session/start recovery is attempted, so a start or
\* generate call whose last answer was a 400-class status has raised.
C14_FailFast ==
  \A t \in Handlers :
    (thr[t].handler \in {"pickup", "speak"} /\ thr[t].last = "client_error")
      => thr[t].outcome = "raised"

\* C15: POST /generate answers 400 for a personality no persona carries,
\* without invoking the engine and without changing the session (for a
\* well-formed id of a session the store holds).
C15_UnknownPersonality ==
  /\ \A w \in Workers :
        req[w].personality \in UnknownPersonalities => req[w].pc = "idle"
  /\ (resp.kind = "generate" /\ resp.personality \in UnknownPersonalities
         /\ resp.status # 404) =>
        /\ resp.status = 400 /\ ~resp.engine_called /\ resp.appended = 0

\* C16: session/start, generate and release each answer 400 to a session id
\* that is not a well-formed UUID: no handler gets past its first lines with
\* such an id, the store is left unchanged and the engine is not invoked.
C16_MalformedId ==
  [][ /\ \A w \in Workers : req'[w].session_id \notin MalformedIds
      /\ (resp' # resp /\ resp'.session_id \in MalformedIds) =>
            /\ resp'.status = 400
            /\ ~resp'.engine_called /\ resp'.appended = 0
            /\ store' = store /\ engine' = engine /\ req' = req
    ]_vars

\* a generate for a malformed id was answered 400 while the store held a session
C16_Witness ==
  /\ resp.kind = "generate" /\ resp.session_id \in MalformedIds /\ resp.status = 400
  /\ store # {}

\* the number of user turns a backend holds for a speak call
user_turns_of(b, id, call) ==
  IF \E e \in b.turns : e.session_id = id /\ e.call = call
    THEN (CHOOSE e \in b.turns : e.session_id = id /\ e.call = call).n
    ELSE 0

\* C30: the documented limitation: a generate call whose answer is lost
\* (the client times out after the backend has recorded the turns) is
\* retried per policy, after retry_delay_s and for at most max_retries
\* posts, and every post the backend answers, the lost ones like the one
\* the client sees, records the call's user_text in one more user turn of
\* the session, which then holds it twice or more.
C30_DuplicateTurns ==
  [][ \A t \in Handlers :
        (thr[t].pc = "generate_post" /\ thr'[t] # thr[t]) =>
          /\ thr'[t].pc = "speak_finish" =>
               user_turns_of(bk', thr[t].session.session_id, thr[t].call) =
                 user_turns_of(bk, thr[t].session.session_id, thr[t].call) + 1
          /\ ( /\ thr'[t].pc # "speak_finish"
               /\ user_turns_of(bk', thr[t].session.session_id, thr[t].call) =
                    user_turns_of(bk, thr[t].session.session_id, thr[t].call) + 1 ) =>
               \/ /\ thr'[t].pc = "generate_post"
                  /\ thr'[t].delay = retry_delay_s
                  /\ thr'[t].posts < max_retries
               \/ /\ thr'[t].pc = "speak_error"
                  /\ thr'[t].posts = max_retries
    ]_vars

\* a speak call is answered at its second post, after a lost answer and a
\* retry delay, and the session holds its user text in two user turns
C30_Witness ==
  \E t \in Handlers :
    /\ thr[t].handler = "speak" /\ thr[t].pc = "speak_finish"
    /\ thr[t].posts = 2 /\ thr[t].waited = retry_delay_s
    /\ thr[t].session.session_id \in bk.alive
    /\ user_turns_of(bk, thr[t].session.session_id, thr[t].call) = 2

\* C17: every change of the booth state follows the cycle idle, pickup,
\* listening, processing, speaking, (hangup), idle: pickup is entered only
\* from idle, processing only from listening, speaking only from processing,
\* and error only from a state other than idle.
C17_Cycle ==
  [][ state_manager'.state # state_manager.state =>
        /\ state_manager'.state = "pickup" => state_manager.state = "idle"
        /\ state_manager'.state = "processing" => state_manager.state = "listening"
        /\ state_manager'.state = "speaking" => state_manager.state = "processing"
        /\ state_manager'.state = "error" => state_manager.state # "idle"
    ]_vars

\* C18: when the backend call of pickup (session start) or of speak
\* (generate) has raised after the retry policy, the handler returns with
\* the booth state error, not processing, and answers 500.
C18_HardFailure ==
  [][ \A t \in Handlers :
        (thr[t].outcome = "raised" /\ thr'[t].handler = "idle") =>
          /\ state_manager'.state = "error"
          /\ state_manager'.error_message = "BackendError"
          /\ ui'.reply.handler = thr[t].handler
          /\ ui'.reply.status = 500
    ]_vars

\* a speak whose generate call met a server error at every attempt has
\* answered 500 and left the booth in the error state
C18_Witness ==
  /\ ui.reply.handler = "speak" /\ ui.reply.status = 500
  /\ state_manager.state = "error" /\ state_manager.error_message = "BackendError"
  /\ \A t \in Handlers : thr[t].handler = "idle"

\* ------------------------------------------------------------------------
\* Properties of the template selection
\* ------------------------------------------------------------------------

\* C5: if no keyword, synonym, fuzzy-word or bigram match contributes to the
\* score of any eligible template (each score is the priority bonus alone),
\* select returns the template named questions.
C5_FallbackQuestions ==
  (/\ sel.pc = "done"
   /\ \A i \in 1..Len(sel.scores) :
         sel.scores[i].score = RNorm(<<sel.scores[i].priority, 10>>))
  => sel.result = "questions"

\* C19: a template whose requires_webcam or requires_keypad flag is not
\* satisfied by the caller's feature flags is never returned by select; with
\* webcam and keypad both false, as POST /generate passes them, select never
\* returns the template named fashion.
C19_RequirementsMet ==
  sel.pc = "done" =>
    LET t == template_named(sel.result)
    IN /\ t.requires_webcam => features_get(sel.available_features, "webcam")
       /\ t.requires_keypad => features_get(sel.available_features, "keypad")
       /\ sel.available_features = [webcam |-> FALSE, keypad |-> FALSE]
            => sel.result # "fashion"

\* a text that selects fashion when a webcam is there has selected another
\* template without one
C19_Witness ==
  /\ sel.pc = "done"
  /\ sel.available_features = [webcam |-> FALSE, keypad |-> FALSE]
  /\ select_template_autonomous(sel.user_input, [webcam |-> TRUE, keypad |-> FALSE]) = "fashion"
  /\ sel.result # "fashion"

\* the entries of the scores dict other than entry i
others(i) == (1..Len(sel.scores)) \ {i}

\* C20 as stated: with the default registry, an input that contains a
\* keyword of exactly one eligible template T as a case-insensitive
\* substring, and contains no keyword and no synonym of any other eligible
\* template, selects T.
C20_KeywordSelects ==
  sel.pc = "done" =>
    \A i \in 1..Len(sel.scores) :
      (/\ exact_keywords(template_named(sel.scores[i].name), sel.user_input) # {}
       /\ \A j \in others(i) :
            /\ exact_keywords(template_named(sel.scores[j].name), sel.user_input) = {}
            /\ exact_synonyms(template_named(sel.scores[j].name), sel.user_input) = {})
      => sel.result = sel.scores[i].name

\* C20, amended: an input that contains a keyword of exactly one eligible
\* template T, while no keyword, synonym, fuzzy-word or bigram match
\* contributes to the score of any other eligible template (each of their
\* scores is the priority bonus alone), selects T; "Give me a riddle"
\* selects riddles and "hi there" selects conversation with webcam and
\* keypad unavailable.
C20_KeywordAloneSelects ==
  sel.pc = "done" =>
    /\ \A i \in 1..Len(sel.scores) :
         (/\ exact_keywords(template_named(sel.scores[i].name), sel.user_input) # {}
          /\ \A j \in others(i) :
               sel.scores[j].score = RNorm(<<sel.scores[j].priority, 10>>))
         => sel.result = sel.scores[i].name
    /\ sel.available_features = [webcam |-> FALSE, keypad |-> FALSE] =>
         /\ sel.user_input = Text_riddle => sel.result = "riddles"
         /\ sel.user_input = <<"h", "i", " ", "t", "h", "e", "r", "e">>
              => sel.result = "conversation"

\* "hi there" with no webcam: conversation is the one template with a match
C20_Witness ==
  /\ sel.pc = "done"
  /\ sel.user_input = <<"h", "i", " ", "t", "h", "e", "r", "e">>
  /\ sel.available_features = [webcam |-> FALSE, keypad |-> FALSE]
  /\ sel.result = "conversation"
  /\ \E i \in 1..Len(sel.scores) :
       /\ sel.scores[i].name = "conversation"
       /\ exact_keywords(template_named("conversation"), sel.user_input) # {}
       /\ \A j \in others(i) :
            sel.scores[j].score = RNorm(<<sel.scores[j].priority, 10>>)

\* the position of a template in the registry (the order of the
\* register_template calls)
registered_at(n) == CHOOSE i \in 1..Len(templates) : templates[i].name = n

\* the entries of the scores dict that hold the maximum score
at_maximum == {i \in 1..Len(sel.scores) :
                 \A j \in 1..Len(sel.scores) : ~RGt(sel.scores[j].score, sel.scores[i].score)}

\* C21: when several eligible templates share the maximum score, select
\* returns the one registered first; the registration order is conversation,
\* questions, riddles, compliments, advice, stories, fashion.
C21_FirstRegisteredWins ==
  /\ [i \in 1..Len(templates) |-> templates[i].name] =
       <<"conversation", "questions", "riddles", "compliments", "advice", "stories", "fashion">>
  /\ (sel.pc = "done" /\ at_maximum # {}) =>
       \A i \in at_maximum :
         /\ RGt(sel.scores[i].score, RZero) =>
              registered_at(sel.result) <= registered_at(sel.scores[i].name)
         /\ RGt(sel.scores[i].score, RZero) =>
              \E k \in at_maximum : sel.scores[k].name = sel.result

\* several templates share a positive maximum and the first registered of
\* them was returned
C21_Witness ==
  /\ sel.pc = "done"
  /\ Cardinality(at_maximum) >= 2
  /\ \A i \in at_maximum : RGt(sel.scores[i].score, RZero)
  /\ \E k \in at_maximum :
       /\ sel.scores[k].name = sel.result
       /\ \A i \in at_maximum \ {k} :
            registered_at(sel.result) < registered_at(sel.scores[i].name)

\* the sum, over the first p (word, term) pairs, of similarity * weight for
\* the pairs whose similarity is above 0.8
RECURSIVE similar_pairs(_, _, _, _)
similar_pairs(words, terms, weight, p) ==
  IF p = 0 THEN RZero
  ELSE LET word == words[((p - 1) \div Len(terms)) + 1]
           term == terms[((p - 1) % Len(terms)) + 1]
           similarity == calculate_similarity(word, term)
       IN RAdd(similar_pairs(words, terms, weight, p - 1),
               IF similarity[1] * 10 > 8 * similarity[2]
                 THEN RMul(similarity, weight) ELSE RZero)

\* the number of (bigram, term) pairs where the term occurs in the two
\* consecutive words joined by a space
bigram_pairs(words, terms) ==
  Cardinality({p \in (1..(Len(words) - 1)) \X (1..Len(terms)) :
                 contains(lower(terms[p[2]]), words[p[1]] \o <<" ">> \o words[p[1] + 1])})

\* the number of terms that occur in the lowered raw input
substring_terms(terms, user_input) ==
  Cardinality({k \in 1..Len(terms) : contains(lower(terms[k]), lower(user_input))})

\* C31: the score of a template for an input is 2.0 per keyword and 1.5 per
\* synonym occurring as a case-insensitive substring of the raw input, plus
\* similarity * 0.5 (keyword) or similarity * 0.3 (synonym) for every
\* (input word, term) pair of similarity above 0.8, plus priority * 0.1,
\* plus, only when the input has more than 2 words, 0.5 per (bigram,
\* keyword) pair and 0.3 per (bigram, synonym) pair where the term is a
\* substring of the consecutive word pair.
C31_Score ==
  sel.pc = "done" =>
    \A i \in 1..Len(sel.scores) :
      LET template == template_named(sel.scores[i].name)
          words == extract_words(sel.user_input)
          kw == template.keywords
          sy == template.synonyms
          long == Len(words) > 2
      IN sel.scores[i].score =
           RNorm(RSum(<< <<2 * substring_terms(kw, sel.user_input), 1>>,
                         <<15 * substring_terms(sy, sel.user_input), 10>>,
                         similar_pairs(words, kw, <<5, 10>>, Len(words) * Len(kw)),
                         similar_pairs(words, sy, <<3, 10>>, Len(words) * Len(sy)),
                         <<template.priority, 10>>,
                         IF long THEN <<5 * bigram_pairs(words, kw), 10>> ELSE RZero,
                         IF long THEN <<3 * bigram_pairs(words, sy), 10>> ELSE RZero >>))

\* "Give me a riddle" was scored: riddles has a keyword match, fuzzy pairs
\* and a phrase bonus on top of its priority
C31_Witness ==
  /\ sel.pc = "done"
  /\ sel.user_input = Text_riddle
  /\ \E i \in 1..Len(sel.scores) :
       /\ sel.scores[i].name = "riddles"
       /\ substring_terms(template_named("riddles").keywords, sel.user_input) > 0
       /\ bigram_pairs(extract_words(sel.user_input), template_named("riddles").keywords) > 0
       /\ RGt(sel.scores[i].score, <<3, 1>>)

C33_Terminates ==
  /\ [](/\ thr[1].posts <= max_retries
        /\ thr[1].start_total <= max_retries * max_retries)
  /\ <>(/\ thr[1].pc \in {"speak_finish", "speak_error"}
        /\ thr[1].outcome \in {"returned", "raised"})

\* the call has ended after max_retries posts that each met a 404 and
\* max_retries posts of session/start for each of them
C33_Witness ==
  /\ thr[1].pc = "speak_error" /\ thr[1].outcome = "raised"
  /\ thr[1].posts = max_retries /\ thr[1].n404 = max_retries
  /\ thr[1].start_total = max_retries * max_retries

\* C34: once a hangup has released the session and every request to the
\* booth has finished, the backend holds no session for the released id: a
\* speak request in flight during the hangup does not create it again
\* through the 404 recovery of the client.
C34_ReleasedStaysReleased ==
  (\A t \in Handlers : thr[t].handler = "idle") => bk.released \cap bk.alive = {}

C36_HangupEndsSession ==
  [][ \A t \in Handlers :
        /\ (thr[t].pc = "hangup_end_session" /\ thr'[t] # thr[t]) =>
             /\ state_manager'.session = NoSession
             /\ state_manager'.audio_buffer = <<>>
             /\ state_manager'.current_scene = "None"
             /\ state_manager'.conversation_history = <<>>
        /\ (/\ thr[t].handler = "hangup"
            /\ thr[t].pc = "release_post" \/ thr[t].session # NoSession
            /\ thr'[t].handler = "idle") =>
             /\ thr[t].pc = "hangup_transition"
             /\ state_manager'.state # "error"
    ]_vars

\* C37: whenever the booth state is PROCESSING or SPEAKING a local session
\* is active (state_manager.session is set), after any sequence and
\* interleaving of pickup, speak and hangup requests.
C37_SessionWhileBusy ==
  state_manager.state \in {"processing", "speaking"} => state_manager.session # NoSession

\* C38: in every /generate call the engine is invoked with at most
\* history_max_turns + 1 messages, after any sequence of earlier generate
\* calls on that session.
C38_MessagesBounded ==
  \A w \in Workers :
    (req[w].kind = "generate" /\ req[w].pc # "idle") =>
      Len(req[w].messages) <= history_max_turns + 1

====
